---- MODULE Spec2Model ----
(***************************************************************************)
(* graphgate: the query planner's root pass and the plan executor.         *)
(*                                                                         *)
(* Spec         one request end to end: the planner builds the plan tree   *)
(*              (crates/planner/src/builder.rs), the executor runs it      *)
(*              against the upstream services (crates/handler/src/         *)
(*              executor.rs).                                              *)
(* SpecPlanner  the planner's root pass over a wide set of mutation        *)
(*              documents.                                                 *)
(* SpecFlatten  one Flatten node run on an arbitrary accumulator, as the   *)
(*              post-event plan of a subscription runs on an upstream      *)
(*              event (executor.rs, execute_stream).                       *)
(* SpecErrors   rewrite_errors over a set of upstream error paths.         *)
(***************************************************************************)
EXTENDS Integers, Sequences, FiniteSets, TLC

VARIABLES request, plan, status, outcome, sent, flags, resp, returned, reordered,
          gateway, client, server, streams, actor, upstream, ensure, transport,
          composer, builder, merger, guard, shared, mux

\* one HTTP request: the planner, the executor and the gateway's schema
http_vars == <<request, plan, status, outcome, sent, flags, resp, returned, reordered,
               gateway>>

\* one client WebSocket connection: the client, the server loop, its
\* subscription streams, the controller's actor and the upstream connections
ws_vars == <<client, server, streams, actor, upstream>>

\* connecting to an upstream over WebSocket: the controller's ensure_upstream
\* and the WebSocketTransport of crates/transports
conn_vars == <<ensure, transport>>

\* parts of the gateway run on their own: ComposedSchema::combine over the
\* subgraphs' documents, the plan builder over whole client documents,
\* merge_data over two values, the guard of the executor's accumulator, the
\* update loop of the shared route table, and the controller's actor with
\* the callers of WebSocketController::subscribe
loop_vars == <<shared, mux>>

unit_vars == <<composer, builder, merger, guard, loop_vars>>

vars == <<http_vars, ws_vars, conn_vars, unit_vars>>

(***************************************************************************)
(* ConstValue (crate `value`): a tagged value.  An object is a map from    *)
(* keys to values; a key is the pair (p, n): p = 0 and n the name for a    *)
(* plain response key, p > 0 for the planner's alias "__key{p}_{n}".       *)
(***************************************************************************)
Null == [t |-> "null"]

Str(s) == [t |-> "str", s |-> s]

Num(n) == [t |-> "num", n |-> n]

Obj(f) == [t |-> "obj", f |-> f]

List(l) == [t |-> "list", l |-> l]

\* the key "__key{prefix}_{name}" of a required-ref (types.rs, stringify_key_fields)
K(prefix, name) == [p |-> prefix, n |-> name]

\* a plain response key
N(name) == [p |-> 0, n |-> name]

\* Option<&str>::None of PathSegment.possible_type
\* Option
None == [is_some |-> FALSE]

Some(value) == [is_some |-> TRUE, value |-> value]

NoType == ""

PathSegment(name, is_list, possible_type) == [name |-> name, is_list |-> is_list, possible_type |-> possible_type]

\* enum Representation of execute_flatten_node
Skip == [keys |-> FALSE]

Keys(value) == [keys |-> TRUE, value |-> value]

ServerError(message, path) == [message |-> message, path |-> path, locations |-> <<>>, extensions |-> <<>>]

RECURSIVE Concat(_)
Concat(seqs) == IF seqs = <<>> THEN <<>> ELSE Head(seqs) \o Concat(Tail(seqs))

(***************************************************************************)
(* merge_data                                                              *)
(***************************************************************************)
\* merge_data that replaces the target by the fragment instead of merging into it
merge_data_replace(target, value) == IF value.t = "null" THEN target ELSE value

\* merge_data that lets the fragment win where a key is on both sides
merge_data_shallow(target, value) ==
    IF target.t = "null" THEN value
    ELSE IF target.t = "obj" /\ value.t = "obj"
    THEN Obj([k \in DOMAIN target.f \cup DOMAIN value.f |->
                IF k \in DOMAIN value.f THEN value.f[k] ELSE target.f[k]])
    ELSE target

RECURSIVE merge_data(_, _)
merge_data(target, value) ==
    IF target.t = "null" THEN value
    ELSE IF target.t = "obj" /\ value.t = "obj"
    THEN Obj([k \in DOMAIN target.f \cup DOMAIN value.f |->
                IF k \in DOMAIN value.f
                THEN IF k \in DOMAIN target.f
                     THEN merge_data(target.f[k], value.f[k])
                     ELSE value.f[k]
                ELSE target.f[k]])
    ELSE IF target.t = "list" /\ value.t = "list" /\ Len(target.l) = Len(value.l)
    THEN List([i \in 1..Len(target.l) |-> merge_data(target.l[i], value.l[i])])
    ELSE target

(***************************************************************************)
(* execute_flatten_node: the first walk                                    *)
(***************************************************************************)
extract_keys(from, prefix, possible_type) ==
    LET typename == K(prefix, "__typename")
        matches  == /\ typename \in DOMAIN from
                    /\ from[typename].t = "str"
                    /\ from[typename].s = possible_type
    IN  IF possible_type # NoType /\ ~matches
        THEN [rep |-> Skip, from |-> from]
        ELSE LET keys == {k \in DOMAIN from : k.p = prefix}
             IN  [rep  |-> Keys(Obj([k \in {N(x.n) : x \in keys} |-> from[K(prefix, k.n)]])),
                  from |-> [k \in DOMAIN from \ keys |-> from[k]]]

\* the body of `for element in array` at the last segment
extract_element(element, prefix, possible_type) ==
    IF element.t = "obj"
    THEN LET e == extract_keys(element.f, prefix, possible_type)
         IN  [value |-> Obj(e.from), reps |-> <<e.rep>>]
    ELSE [value |-> element, reps |-> <<Skip>>]

RECURSIVE get_representations(_, _, _)
get_representations(value, path, prefix) ==
    IF path = <<>> \/ value.t # "obj"
    THEN [value |-> value, reps |-> <<>>]
    ELSE
    LET segment == Head(path)
        key     == N(segment.name)
        is_last == Len(path) = 1
        has     == key \in DOMAIN value.f
    IN  IF is_last /\ ~segment.is_list
        THEN IF has /\ value.f[key].t = "obj"
             THEN LET e == extract_keys(value.f[key].f, prefix, segment.possible_type)
                  IN  [value |-> Obj([value.f EXCEPT ![key] = Obj(e.from)]),
                       reps  |-> <<e.rep>>]
             ELSE [value |-> value, reps |-> <<Skip>>]
        ELSE IF is_last
        THEN IF has /\ value.f[key].t = "list"
             THEN LET array == value.f[key].l
                      per   == [i \in 1..Len(array) |->
                                  extract_element(array[i], prefix, segment.possible_type)]
                  IN  [value |-> Obj([value.f EXCEPT
                                        ![key] = List([i \in 1..Len(array) |-> per[i].value])]),
                       reps  |-> Concat([i \in 1..Len(array) |-> per[i].reps])]
             ELSE [value |-> value, reps |-> <<>>]
        ELSE IF ~segment.is_list
        THEN IF has
             THEN LET r == get_representations(value.f[key], Tail(path), prefix)
                  IN  [value |-> Obj([value.f EXCEPT ![key] = r.value]), reps |-> r.reps]
             ELSE [value |-> value, reps |-> <<Skip>>]
        ELSE IF has /\ value.f[key].t = "list"
             THEN LET array == value.f[key].l
                      per   == [i \in 1..Len(array) |->
                                  get_representations(array[i], Tail(path), prefix)]
                  IN  [value |-> Obj([value.f EXCEPT
                                        ![key] = List([i \in 1..Len(array) |-> per[i].value])]),
                       reps  |-> Concat([i \in 1..Len(array) |-> per[i].reps])]
             ELSE [value |-> value, reps |-> <<Skip>>]

\* lines 409-420: the flags and the values of the representations
rep_flags(representations) == [i \in 1..Len(representations) |-> representations[i].keys]

RECURSIVE rep_values(_)
rep_values(representations) ==
    IF representations = <<>> THEN <<>>
    ELSE (IF Head(representations).keys THEN <<Head(representations).value>> ELSE <<>>)
         \o rep_values(Tail(representations))

(***************************************************************************)
(* execute_flatten_node: the second walk.  The two iterators are threaded  *)
(* through the walk: each result carries what is left of them.             *)
(***************************************************************************)
\* `if let Some(true) = flags.next() { if let Some(value) = values.next() { merge_data } }`
consume_slot(target, values, flgs) ==
    IF flgs = <<>>
    THEN [target |-> target, values |-> values, flags |-> flgs]
    ELSE IF Head(flgs) /\ values # <<>>
    THEN [target |-> merge_data(target, Head(values)), values |-> Tail(values), flags |-> Tail(flgs)]
    ELSE [target |-> target, values |-> values, flags |-> Tail(flgs)]

RECURSIVE flatten_values(_, _, _, _)
RECURSIVE flatten_elements(_, _, _, _)
\* `for element in array`: the last segment consumes a slot per element, an
\* inner segment walks on into each element
flatten_elements(array, path, values, flgs) ==
    IF array = <<>>
    THEN [l |-> <<>>, values |-> values, flags |-> flgs]
    ELSE LET h == IF path = <<>>
                  THEN consume_slot(Head(array), values, flgs)
                  ELSE flatten_values(Head(array), path, values, flgs)
             r == flatten_elements(Tail(array), path, h.values, h.flags)
         IN  [l |-> <<h.target>> \o r.l, values |-> r.values, flags |-> r.flags]

flatten_values(target, path, values, flgs) ==
    IF path = <<>> \/ target.t # "obj"
    THEN [target |-> target, values |-> values, flags |-> flgs]
    ELSE
    LET segment == Head(path)
        key     == N(segment.name)
        is_last == Len(path) = 1
        has     == key \in DOMAIN target.f
        same    == [target |-> target, values |-> values, flags |-> flgs]
    IN  IF ~segment.is_list
        THEN IF has
             THEN LET r == IF is_last
                           THEN consume_slot(target.f[key], values, flgs)
                           ELSE flatten_values(target.f[key], Tail(path), values, flgs)
                  IN  [target |-> Obj([target.f EXCEPT ![key] = r.target]),
                       values |-> r.values, flags |-> r.flags]
             ELSE same
        ELSE IF has /\ target.f[key].t = "list"
             THEN LET r == flatten_elements(target.f[key].l, Tail(path), values, flgs)
                  IN  [target |-> Obj([target.f EXCEPT ![key] = List(r.l)]),
                       values |-> r.values, flags |-> r.flags]
             ELSE same

(***************************************************************************)
(* rewrite_errors                                                          *)
(***************************************************************************)
RECURSIVE prefix_steps(_)
prefix_steps(prefix_path) ==
    IF prefix_path = <<>> THEN <<>>
    ELSE <<Str(Head(prefix_path).name)>>
         \o (IF Head(prefix_path).is_list THEN <<Num(0)>> ELSE <<>>)
         \o prefix_steps(Tail(prefix_path))

RECURSIVE string_steps(_)
string_steps(path) ==
    IF path = <<>> THEN <<>>
    ELSE (IF Head(path).t = "str" THEN <<Head(path)>> ELSE <<>>) \o string_steps(Tail(path))

is_entities_path(path) == path # <<>> /\ path[1].t = "str" /\ path[1].s = "_entities"

\* one iteration of the loop; prefix_path <<>> stands for None (the loop over
\* an empty Some(path) pushes nothing either)
rewrite_error(prefix_path, err) ==
    LET entities == is_entities_path(err.path)
        drained  == IF entities THEN Tail(err.path) ELSE <<>>
        left     == IF entities THEN <<Head(err.path)>> ELSE err.path
    IN  [err EXCEPT !.path = prefix_steps(prefix_path) \o drained \o string_steps(left)]

rewrite_errors(prefix_path, target, errors) ==
    target \o [i \in 1..Len(errors) |-> rewrite_error(prefix_path, errors[i])]

(***************************************************************************)
(* The composed schema the requests run against: the root fields and the   *)
(* service owning each (examples/accounts.rs, products.rs, reviews.rs;     *)
(* __schema is synthesized on the query root and has no owner).            *)
(***************************************************************************)
NoService == ""

query_fields == [name \in {"me", "topProducts", "search", "__schema"} |->
                   CASE name = "me"          -> "accounts"
                     [] name = "topProducts" -> "products"
                     [] name = "search"      -> "reviews"
                     [] OTHER                -> NoService]

mutation_fields == [name \in {"createUser", "addReview", "deleteUser", "setPrice"} |->
                      CASE name = "addReview" -> "reviews"
                        [] name = "setPrice"  -> "products"
                        [] OTHER              -> "accounts"]

\* parent_type.fields of the operation's root type
root_type_fields(op) == IF op = "mutation" THEN mutation_fields ELSE query_fields

is_introspection_field(name) == name = "__type" \/ name = "__schema"

\* Selection::Field, Selection::FragmentSpread, Selection::InlineFragment
Field(name) == [sel |-> "Field", name |-> name]

FragmentSpread(fragment_name) == [sel |-> "FragmentSpread", fragment_name |-> fragment_name]

InlineFragment(selection_set) == [sel |-> "InlineFragment", selection_set |-> selection_set]

FetchEntity(service, path, prefix) == [service |-> service, path |-> path, prefix |-> prefix]

(***************************************************************************)
(* build_field, seen from the root pass: the field-ref it pushes and the   *)
(* fetch-entity groups it registers.  The recursion below a root field is  *)
(* not unfolded: what it registers for the sub-selection the client sends  *)
(* with each root field is tabulated (Product.reviews and Product.inStock  *)
(* under topProducts, the two members of the union under search,           *)
(* Review.author under addReview).                                         *)
(***************************************************************************)
field_entities(name) ==
    CASE name = "topProducts" ->
           << FetchEntity("reviews",   <<PathSegment("topProducts", TRUE, NoType)>>, 1),
              FetchEntity("inventory", <<PathSegment("topProducts", TRUE, NoType)>>, 2) >>
      [] name = "search" ->
           << FetchEntity("accounts", <<PathSegment("search", TRUE, "User")>>, 4),
              FetchEntity("products", <<PathSegment("search", TRUE, "Product")>>, 5) >>
      [] name = "addReview" ->
           << FetchEntity("accounts", <<PathSegment("addReview", FALSE, NoType),
                                        PathSegment("author", FALSE, NoType)>>, 6) >>
      [] OTHER -> <<>>

\* the groups registered into next_group while the Flatten of `entity` is built
\* (User.username under Product.reviews.author)
entity_entities(entity) ==
    IF entity.prefix = 1
    THEN << FetchEntity("accounts", <<PathSegment("topProducts", TRUE, NoType),
                                      PathSegment("reviews", TRUE, NoType),
                                      PathSegment("author", FALSE, NoType)>>, 3) >>
    ELSE <<>>

(***************************************************************************)
(* RootGroup: an ordered list of (service, selection set)                  *)
(***************************************************************************)
\* add_fetch_entity: a group is keyed by (service, path, type); a key already
\* present only gets the field pushed
RECURSIVE add_fetch_entities(_, _)
add_fetch_entities(fetch_entity_group, entities) ==
    IF entities = <<>> THEN fetch_entity_group
    ELSE LET e == Head(entities)
             present == \E i \in 1..Len(fetch_entity_group) :
                           /\ fetch_entity_group[i].service = e.service
                           /\ fetch_entity_group[i].path = e.path
         IN  add_fetch_entities(IF present THEN fetch_entity_group
                                ELSE Append(fetch_entity_group, e),
                                Tail(entities))

group_push(group, at, name) == [group EXCEPT ![at].selection_set = Append(@, name)]

\* QueryRootGroup::selection_set_mut: the entry of the service, created at the end
QueryRootGroup_selection_set_mut(group, service) ==
    IF \E i \in 1..Len(group) : group[i].service = service
    THEN [group |-> group, at |-> CHOOSE i \in 1..Len(group) : group[i].service = service]
    ELSE [group |-> Append(group, [service |-> service, selection_set |-> <<>>]),
          at |-> Len(group) + 1]

\* a mutation group that looks for the service among all its entries
MutationRootGroup_any_entry(group, service) ==
    IF \E i \in 1..Len(group) : group[i].service = service
    THEN [group |-> group, at |-> CHOOSE i \in 1..Len(group) : group[i].service = service]
    ELSE [group |-> Append(group, [service |-> service, selection_set |-> <<>>]),
          at |-> Len(group) + 1]

\* MutationRootGroup::selection_set_mut: the last entry if it is the service's
MutationRootGroup_selection_set_mut(group, service) ==
    IF group # <<>> /\ group[Len(group)].service = service
    THEN [group |-> group, at |-> Len(group)]
    ELSE [group |-> Append(group, [service |-> service, selection_set |-> <<>>]),
          at |-> Len(group) + 1]

selection_set_mut(op, group, service) ==
    IF op = "mutation"
    THEN MutationRootGroup_selection_set_mut(group, service)
    ELSE QueryRootGroup_selection_set_mut(group, service)

(***************************************************************************)
(* build_root_selection_set_rec: st carries root_group, fetch_entity_group *)
(* and inspection_selection_set through the loop.                          *)
(***************************************************************************)
RECURSIVE build_root_selection_set_rec(_, _, _, _)
build_root_selection_set_rec(st, op, fragments, selection_set) ==
    IF selection_set = <<>> THEN st
    ELSE
    LET selection == Head(selection_set)
        fields    == root_type_fields(op)
        next ==
          IF selection.sel = "Field"
          THEN IF selection.name \notin DOMAIN fields THEN st
               ELSE IF is_introspection_field(selection.name)
               THEN [st EXCEPT !.inspection_selection_set = Append(@, selection.name)]
               ELSE IF fields[selection.name] = NoService THEN st
               ELSE LET m == selection_set_mut(op, st.root_group, fields[selection.name])
                    IN  [st EXCEPT
                           !.root_group = group_push(m.group, m.at, selection.name),
                           !.fetch_entity_group =
                               add_fetch_entities(@, field_entities(selection.name))]
          ELSE IF selection.sel = "FragmentSpread"
          THEN IF selection.fragment_name \in DOMAIN fragments
               THEN build_root_selection_set_rec(st, op, fragments,
                                                 fragments[selection.fragment_name])
               ELSE st
          ELSE build_root_selection_set_rec(st, op, fragments, selection.selection_set)
    IN  build_root_selection_set_rec(next, op, fragments, Tail(selection_set))

root_pass(op, fragments, selection_set) ==
    build_root_selection_set_rec(
        [root_group |-> <<>>, fetch_entity_group |-> <<>>, inspection_selection_set |-> <<>>],
        op, fragments, selection_set)

(***************************************************************************)
(* PlanNode                                                                *)
(***************************************************************************)
NoPlan == [kind |-> "None"]

SequenceNode(nodes) == [kind |-> "Sequence", nodes |-> nodes]

ParallelNode(nodes) == [kind |-> "Parallel", nodes |-> nodes]

IntrospectionNode(selection_set) == [kind |-> "Introspection", selection_set |-> selection_set]

FetchNode(service, selection_set) == [kind |-> "Fetch", service |-> service, selection_set |-> selection_set]

FlattenNode(entity) == [kind |-> "Flatten", path |-> entity.path, prefix |-> entity.prefix, service |-> entity.service]

\* PlanNode::flatten
flatten(node) ==
    IF node.kind \in {"Sequence", "Parallel"} /\ Len(node.nodes) = 1
    THEN node.nodes[1]
    ELSE node

\* lines 228-249 with the root fetches of a mutation run like those of a query
root_fetch_node_parallel(op, root_group) ==
    flatten(ParallelNode([i \in 1..Len(root_group) |->
                FetchNode(root_group[i].service, root_group[i].selection_set)]))

\* lines 228-249: one Fetch per root group, parallel for a query, else in sequence
root_fetch_node(op, root_group) ==
    LET nodes == [i \in 1..Len(root_group) |->
                    FetchNode(root_group[i].service, root_group[i].selection_set)]
    IN  IF op = "query"
        THEN flatten(ParallelNode(nodes))
        ELSE flatten(SequenceNode(nodes))

\* lines 252-303: one Parallel of Flatten nodes per layer of fetch-entity groups
RECURSIVE entity_layers(_)
entity_layers(fetch_entity_group) ==
    IF fetch_entity_group = <<>> THEN <<>>
    ELSE LET flatten_nodes == [i \in 1..Len(fetch_entity_group) |->
                                 FlattenNode(fetch_entity_group[i])]
             next_group    == add_fetch_entities(<<>>,
                                 Concat([i \in 1..Len(fetch_entity_group) |->
                                           entity_entities(fetch_entity_group[i])]))
         IN  <<flatten(ParallelNode(flatten_nodes))>> \o entity_layers(next_group)

\* all the layers in one Parallel
build_plan_one_layer(op, st) ==
    flatten(SequenceNode(
        (IF st.inspection_selection_set # <<>>
         THEN <<IntrospectionNode(st.inspection_selection_set)>> ELSE <<>>)
        \o <<root_fetch_node(op, st.root_group)>>
        \o (IF st.fetch_entity_group = <<>> THEN <<>>
            ELSE <<flatten(ParallelNode(Concat(
                     [i \in 1..Len(entity_layers(st.fetch_entity_group)) |->
                        LET layer == entity_layers(st.fetch_entity_group)[i]
                        IN  IF layer.kind = "Parallel" THEN layer.nodes ELSE <<layer>>])))>>)))

\* lines 221-305 of build_root_selection_set, after the root pass
build_plan(op, st) ==
    flatten(SequenceNode(
        (IF st.inspection_selection_set # <<>>
         THEN <<IntrospectionNode(st.inspection_selection_set)>> ELSE <<>>)
        \o <<root_fetch_node(op, st.root_group)>>
        \o entity_layers(st.fetch_entity_group)))

build_root_selection_set(req) ==
    build_plan(req.op, root_pass(req.op, req.fragments, req.selection_set))

(***************************************************************************)
(* The upstream services, behind Fetcher::query: what each answers to the  *)
(* sub-request of a node.  A service answers every representation with an *)
(* entity that echoes the representation's key, so the slot an entity ends *)
(* in can be told from the slot its key was taken from.                    *)
(***************************************************************************)
ListLen == 2

\* the object with the (key, value) pairs of a sequence
ObjOf(pairs) ==
    Obj([k \in {pairs[i][1] : i \in DOMAIN pairs} |->
           pairs[CHOOSE i \in DOMAIN pairs : pairs[i][1] = k][2]])

rep_field(rep, name) ==
    IF rep.t = "obj" /\ N(name) \in DOMAIN rep.f THEN rep.f[N(name)] ELSE Null

\* the value of a root field in the answer of its service
root_value(name) ==
    CASE name = "me" -> ObjOf(<< <<N("username"), Str("me")>> >>)
      [] name = "topProducts" ->
           List([i \in 1..ListLen |->
                   ObjOf(<< <<N("upc"), Num(i)>>,
                            <<K(1, "__typename"), Str("Product")>>, <<K(1, "upc"), Num(i)>>,
                            <<K(2, "__typename"), Str("Product")>>, <<K(2, "upc"), Num(i)>> >>)])
      [] name = "search" ->
           List(<< ObjOf(<< <<N("__typename"), Str("User")>>,
                            <<K(4, "__typename"), Str("User")>>, <<K(4, "id"), Num(1)>> >>),
                   ObjOf(<< <<N("__typename"), Str("Product")>>,
                            <<K(5, "__typename"), Str("Product")>>, <<K(5, "upc"), Num(2)>> >>) >>)
      [] name = "addReview" ->
           ObjOf(<< <<N("body"), Str("b")>>,
                    <<N("author"), ObjOf(<< <<K(6, "__typename"), Str("User")>>,
                                            <<K(6, "id"), Num(1)>> >>)>> >>)
      [] OTHER -> ObjOf(<< <<N("id"), Num(1)>> >>)

\* the entity a service returns for one representation
entity_value(node, rep) ==
    CASE node.prefix = 1 ->
           ObjOf(<< <<N("reviews"),
                     List(<< ObjOf(<< <<N("body"), rep_field(rep, "upc")>>,
                                      <<N("author"),
                                        ObjOf(<< <<K(3, "__typename"), Str("User")>>,
                                                 <<K(3, "id"), rep_field(rep, "upc")>> >>)>> >>) >>)>> >>)
      [] node.prefix = 2 -> ObjOf(<< <<N("inStock"), rep_field(rep, "upc")>> >>)
      [] node.prefix = 3 -> ObjOf(<< <<N("username"), rep_field(rep, "id")>> >>)
      [] node.prefix = 4 -> ObjOf(<< <<N("username"), rep_field(rep, "id")>> >>)
      [] node.prefix = 5 -> ObjOf(<< <<N("name"), rep_field(rep, "upc")>> >>)
      [] node.prefix = 6 -> ObjOf(<< <<N("username"), rep_field(rep, "id")>> >>)
      [] OTHER -> ObjOf(<< <<N("r"), rep_field(rep, "id")>> >>)

\* Result<Response>: Err(_) of the transport, or Ok(Response {data, errors})
Failed == [ok |-> FALSE]

Response(data, errors) == [ok |-> TRUE, data |-> data, errors |-> errors]

fetch_data(node) ==
    ObjOf([i \in 1..Len(node.selection_set) |->
             <<N(node.selection_set[i]), root_value(node.selection_set[i])>>])

entities_data(node, representations) ==
    ObjOf(<< <<N("_entities"),
              List([i \in 1..Len(representations) |-> entity_value(node, representations[i])])>> >>)

Outcomes == {"ok", "errors", "failed"}

\* the answer to the sub-request of a Fetch node
fetch_result(node, o) ==
    CASE o = "failed" -> Failed
      [] o = "errors" ->
           Response(fetch_data(node),
                    <<ServerError("upstream", <<Str(node.selection_set[1]), Num(0), Str("x")>>)>>)
      [] OTHER -> Response(fetch_data(node), <<>>)

\* the answer to the sub-request of a Flatten node
flatten_result(node, representations, o) ==
    CASE o = "failed" -> Failed
      [] o = "errors" -> Response(entities_data(node, representations), request.entity_errors)
      [] OTHER -> Response(entities_data(node, representations), <<>>)

\* IntrospectionRoot.resolve
introspection_value(selection_set) ==
    ObjOf([i \in 1..Len(selection_set) |-> <<N(selection_set[i]), Str("schema")>>])

TransportError == ServerError("failed", <<>>)

(***************************************************************************)
(* The executor.  A node of the plan is named by the child indexes leading *)
(* to it from the root; status, outcome, sent and flags are kept per leaf. *)
(***************************************************************************)
IsComposite(node) == node.kind \in {"Sequence", "Parallel"}

RECURSIVE NodeAt(_, _)
NodeAt(node, id) == IF id = <<>> THEN node ELSE NodeAt(node.nodes[Head(id)], Tail(id))

RECURSIVE Leaves(_)
Leaves(node) ==
    IF IsComposite(node)
    THEN UNION {{<<i>> \o l : l \in Leaves(node.nodes[i])} : i \in 1..Len(node.nodes)}
    ELSE {<<>>}

IsPrefix(id, l) == Len(id) <= Len(l) /\ SubSeq(l, 1, Len(id)) = id

Under(id) == {l \in DOMAIN status : IsPrefix(id, l)}

\* join_all with the semantics of try_join_all: the first failure ends the node
NodeDoneOrFailed(id) ==
    \/ \A l \in Under(id) : status[l] = "done"
    \/ \E l \in Under(id) : outcome[l] = "failed"

\* the future of execute_node(node) has completed: for a Sequence the loop
\* has awaited every child, for a Parallel join_all has
NodeDone(id) == \A l \in Under(id) : status[l] = "done"

Parent(id) == SubSeq(id, 1, Len(id) - 1)

\* execute_node(node) has been called: the root when the plan is run; a child
\* of a Parallel with its parent (join_all polls every child); a child of a
\* Sequence once the children before it were awaited
RECURSIVE NodeStarted(_)
NodeStarted(id) ==
    IF id = <<>> THEN TRUE
    ELSE /\ NodeStarted(Parent(id))
         /\ \/ NodeAt(plan, Parent(id)).kind = "Parallel"
            \/ \A j \in 1..(id[Len(id)] - 1) : NodeDone(Parent(id) \o <<j>>)

Running == plan # NoPlan /\ ~returned

RECURSIVE LexLess(_, _)
LexLess(a, b) ==
    IF a = <<>> \/ b = <<>> THEN a = <<>> /\ b # <<>>
    ELSE Head(a) < Head(b) \/ (Head(a) = Head(b) /\ LexLess(Tail(a), Tail(b)))

\* history: leaf n completes while a leaf declared before it has not
OutOfOrder(n) == \E a \in DOMAIN status : LexLess(a, n) /\ status[a] # "done"

\* lines 220-236 with the data merged whatever the errors
fetch_merge_always(current_resp, res) ==
    IF ~res.ok
    THEN [current_resp EXCEPT !.errors = Append(@, TransportError)]
    ELSE [data   |-> merge_data(current_resp.data, res.data),
          errors |-> rewrite_errors(<<>>, current_resp.errors, res.errors)]

\* execute_fetch_node, lines 220-236: the match on the fetcher's result
fetch_merge(current_resp, res) ==
    IF ~res.ok
    THEN [current_resp EXCEPT !.errors = Append(@, TransportError)]
    ELSE IF res.errors = <<>>
    THEN [current_resp EXCEPT !.data = merge_data(@, res.data)]
    ELSE [current_resp EXCEPT !.errors = rewrite_errors(<<>>, @, res.errors)]

\* execute_flatten_node, lines 444-470
flatten_merge(current_resp, node, flgs, res) ==
    IF ~res.ok
    THEN [current_resp EXCEPT !.errors = Append(@, TransportError)]
    ELSE IF res.errors = <<>>
    THEN IF /\ res.data.t = "obj"
            /\ N("_entities") \in DOMAIN res.data.f
            /\ res.data.f[N("_entities")].t = "list"
         THEN [current_resp EXCEPT !.data =
                 flatten_values(@, node.path, res.data.f[N("_entities")].l, flgs).target]
         ELSE current_resp
    ELSE [current_resp EXCEPT !.errors = rewrite_errors(node.path, @, res.errors)]

\* execute_flatten_node, line 405: `if representations.is_empty() { return; }`
nothing_to_send(representations) == representations = <<>>

(***************************************************************************)
(* The gateway (crates/handler/src/shared_route_table.rs): the composed    *)
(* schema and the route table it holds, the Change commands on their way   *)
(* to update_loop, and the HTTP reply to the request.                      *)
(***************************************************************************)
NoReply == [status |-> 0]

HttpReply(code, body) == [status |-> code, body |-> body]

NotReady == Response(Null, <<ServerError("Not ready.", <<>>)>>)

\* SharedRouteTable::default
NoGateway == [schema |-> FALSE, route_table |-> FALSE, commands |-> 0, http |-> NoReply]

\* a gateway that has composed the schema of its route table
ReadyGateway == [schema |-> TRUE, route_table |-> TRUE, commands |-> 0, http |-> NoReply]

get_route_table_only(g) == g.route_table

\* SharedRouteTable::get: Some exactly when both are stored
get(g) == g.schema /\ g.route_table

check_rules_pass(req) == [is_err |-> FALSE]

\* PlanBuilder::check_rules, on the rule errors validation reports: a
\* Result<(), Response>
check_rules(req) ==
    IF req.rule_errors # <<>>
    THEN [is_err |-> TRUE,
          response |-> Response(Null,
                                [i \in DOMAIN req.rule_errors |->
                                   [message |-> req.rule_errors[i].message, path |-> <<>>,
                                    locations |-> req.rule_errors[i].locations,
                                    extensions |-> <<>>]])]
    ELSE [is_err |-> FALSE]

\* an upstream the controller holds no connection to (UpstreamInfo, and
\* what the upstream end has been sent and has sent)
\* the services of the subscription root fields
WsServices == {"accounts", "products"}

NoUpstream ==
    [connected |-> FALSE, protocol |-> "graphql-ws", subscribe_count |-> 0,
     inbox |-> <<>>, log |-> <<>>, opened |-> 0, sent |-> 0]

\* no client is connected
CONNECT_TIMEOUT_SECONDS == 5

RECONNECT_DELAY_SECONDS == 3

\* no call of ensure_upstream has been made
NoEnsure == [state |-> "idle", waited |-> 0, result |-> ""]

\* no connect task of the transport is running
NoAttempt == [state |-> "none", delay |-> 0, slept |-> 0, waited |-> 0]

\* only the first connect task, the one without a delay, is spawned
spawn_connect_first_only(t, delay) ==
    [t EXCEPT !.attempt = IF delay = 0
                          THEN [state |-> "connecting", delay |-> 0, slept |-> 0, waited |-> 0]
                          ELSE NoAttempt]

\* spawn_connect with do_connect's optional sleep: a task that first sleeps
\* `delay` seconds (None is 0) and then connects
spawn_connect(t, delay) ==
    [t EXCEPT !.attempt = [state |-> IF delay = 0 THEN "connecting" ELSE "sleeping",
                           delay |-> delay, slept |-> 0, waited |-> 0]]

\* main_loop before its loop: no sink, nothing pending, the first connect
\* task spawned without a delay
NewTransport ==
    spawn_connect([sink |-> FALSE, attempt |-> NoAttempt, rx_connect |-> <<>>,
                   req_id |-> 0, pending_requests |-> {}, subscribes |-> {},
                   replies |-> <<>>, sent |-> <<>>, handled |-> 0], 0)

NoTransport == ensure = NoEnsure /\ transport = NewTransport

\* Mutex<Response>: nobody holds the guard of the accumulator
Free == [holder |-> 0, tasks |-> <<>>]

\* no update loop and no actor of a controller is looked at on its own
NoLoops == shared = [stage |-> "none"] /\ mux = [stage |-> "none"]

\* nothing is being composed, planned or merged on its own
NoUnits ==
    /\ composer = [stage |-> "none"]
    /\ builder = [stage |-> "none"]
    /\ merger = [stage |-> "none"]
    /\ guard = Free
    /\ NoLoops

NoConnection ==
    /\ NoTransport /\ NoUnits
    /\ client = [sent |-> <<>>, received |-> <<>>]
    /\ server = [protocol |-> "graphql-ws", open |-> FALSE, read |-> 0, controller |-> FALSE]
    /\ streams = <<>>
    /\ actor = [alive |-> FALSE, commands |-> <<>>, subscribes |-> <<>>, cancelled |-> <<>>]
    /\ upstream = [s \in WsServices |-> NoUpstream]

(***************************************************************************)
(* Actions                                                                 *)
(***************************************************************************)
\* SharedRouteTable::query: the document is parsed, the schema and the route
\* table are read, PlanBuilder::plan checks the rules and builds the plan,
\* then Executor::new: an empty accumulator
PlanRequest ==
    /\ plan = NoPlan /\ gateway.http = NoReply
    /\ LET checked == check_rules(request)
       IN  IF request.parse_error
           THEN /\ gateway' = [gateway EXCEPT !.http = HttpReply(400, [text |-> "parse error"])]
                /\ UNCHANGED <<plan, status, outcome, sent, flags>>
           ELSE IF ~get(gateway)
           THEN /\ gateway' = [gateway EXCEPT !.http = HttpReply(400, NotReady)]
                /\ UNCHANGED <<plan, status, outcome, sent, flags>>
           ELSE IF checked.is_err
           THEN /\ gateway' = [gateway EXCEPT !.http = HttpReply(200, checked.response)]
                /\ UNCHANGED <<plan, status, outcome, sent, flags>>
           ELSE /\ plan' = build_root_selection_set(request)
                /\ status' = [l \in Leaves(plan') |-> "idle"]
                /\ outcome' = [l \in Leaves(plan') |-> "none"]
                /\ sent' = [l \in Leaves(plan') |-> <<>>]
                /\ flags' = [l \in Leaves(plan') |-> <<>>]
                /\ UNCHANGED gateway
    /\ UNCHANGED <<request, resp, returned, reordered>>
    /\ UNCHANGED ws_vars /\ UNCHANGED conn_vars /\ UNCHANGED unit_vars

\* execute_introspection_node
ExecuteIntrospection(n) ==
    /\ Running /\ status[n] = "idle" /\ NodeStarted(n)
    /\ NodeAt(plan, n).kind = "Introspection"
    /\ resp' = [resp EXCEPT !.data =
                  merge_data(@, introspection_value(NodeAt(plan, n).selection_set))]
    /\ status' = [status EXCEPT ![n] = "done"]
    /\ outcome' = [outcome EXCEPT ![n] = "ok"]
    /\ UNCHANGED <<request, plan, sent, flags, returned, reordered>>
    /\ UNCHANGED gateway
    /\ UNCHANGED ws_vars /\ UNCHANGED conn_vars /\ UNCHANGED unit_vars

\* execute_fetch_node up to the await of fetcher.query: the sub-request is out
SendFetch(n) ==
    /\ Running /\ status[n] = "idle" /\ NodeStarted(n)
    /\ NodeAt(plan, n).kind = "Fetch"
    /\ status' = [status EXCEPT ![n] = "sent"]
    /\ UNCHANGED <<request, plan, outcome, sent, flags, resp, returned, reordered>>
    /\ UNCHANGED gateway
    /\ UNCHANGED ws_vars /\ UNCHANGED conn_vars /\ UNCHANGED unit_vars

\* execute_fetch_node from the fetcher's result on: lock, merge
CompleteFetch(n, o) ==
    /\ Running /\ status[n] = "sent"
    /\ NodeAt(plan, n).kind = "Fetch"
    /\ resp' = fetch_merge(resp, fetch_result(NodeAt(plan, n), o))
    /\ status' = [status EXCEPT ![n] = "done"]
    /\ outcome' = [outcome EXCEPT ![n] = o]
    /\ reordered' = (reordered \/ OutOfOrder(n))
    /\ UNCHANGED <<request, plan, sent, flags, returned>>
    /\ UNCHANGED gateway
    /\ UNCHANGED ws_vars /\ UNCHANGED conn_vars /\ UNCHANGED unit_vars

\* execute_flatten_node, lines 396-441: the first walk under the lock, then
\* either the early return or the sub-request
SendFlatten(n) ==
    /\ Running /\ status[n] = "idle" /\ NodeStarted(n)
    /\ NodeAt(plan, n).kind = "Flatten"
    /\ LET node == NodeAt(plan, n)
           walk == get_representations(resp.data, node.path, node.prefix)
       IN  /\ resp' = [resp EXCEPT !.data = walk.value]
           /\ IF nothing_to_send(walk.reps)
              THEN /\ status' = [status EXCEPT ![n] = "done"]
                   /\ UNCHANGED <<sent, flags>>
              ELSE /\ status' = [status EXCEPT ![n] = "sent"]
                   /\ sent' = [sent EXCEPT ![n] = rep_values(walk.reps)]
                   /\ flags' = [flags EXCEPT ![n] = rep_flags(walk.reps)]
    /\ UNCHANGED <<request, plan, outcome, returned, reordered>>
    /\ UNCHANGED gateway
    /\ UNCHANGED ws_vars /\ UNCHANGED conn_vars /\ UNCHANGED unit_vars

\* execute_flatten_node, lines 441-470: the fetcher's result, lock, second walk
CompleteFlatten(n, o) ==
    /\ Running /\ status[n] = "sent"
    /\ NodeAt(plan, n).kind = "Flatten"
    /\ resp' = flatten_merge(resp, NodeAt(plan, n), flags[n],
                             flatten_result(NodeAt(plan, n), sent[n], o))
    /\ status' = [status EXCEPT ![n] = "done"]
    /\ outcome' = [outcome EXCEPT ![n] = o]
    /\ reordered' = (reordered \/ OutOfOrder(n))
    /\ UNCHANGED <<request, plan, sent, flags, returned>>
    /\ UNCHANGED gateway
    /\ UNCHANGED ws_vars /\ UNCHANGED conn_vars /\ UNCHANGED unit_vars

\* execute_query: `self.execute_node(fetcher, node).await; self.resp.into_inner()`,
\* which SharedRouteTable::query sends as the reply; under execute_stream the
\* response is yielded to the stream instead
Finish ==
    /\ Running /\ NodeDone(<<>>)
    /\ returned' = TRUE
    /\ gateway' = IF request.op = "subscription" THEN gateway
                  ELSE [gateway EXCEPT !.http = HttpReply(200, Response(resp.data, resp.errors))]
    /\ UNCHANGED <<request, plan, status, outcome, sent, flags, resp, reordered>>
    /\ UNCHANGED ws_vars /\ UNCHANGED conn_vars /\ UNCHANGED unit_vars

(***************************************************************************)
(* Spec: a request from the client to the response                         *)
(***************************************************************************)
MaxRootFields == 2

RECURSIVE SeqsUpTo(_, _)
SeqsUpTo(S, n) ==
    IF n = 0 THEN {<<>>}
    ELSE SeqsUpTo(S, n - 1) \cup {Append(q, x) : q \in SeqsUpTo(S, n - 1), x \in S}

Distinct(q) == \A i, j \in DOMAIN q : i # j => q[i] # q[j]

NoFragments == <<>>

\* the errors an entity service answers with in Spec
EntityErrors == <<ServerError("upstream", <<Str("_entities"), Num(0), Str("x")>>)>>

\* what the client sends (operation type, fragments, root selection set) and
\* what the environment holds for the run: the errors of a failing entity
\* service and, for a subscription, the upstream event
Request(op, fragments, selection_set, event, entity_errors) ==
    [op |-> op, fragments |-> fragments, selection_set |-> selection_set,
     event |-> event, entity_errors |-> entity_errors,
     parse_error |-> FALSE, rule_errors |-> <<>>]

FieldsOf(names) == [i \in DOMAIN names |-> Field(names[i])]

Requests ==
    {Request("query", NoFragments, FieldsOf(q), Null, EntityErrors) :
        q \in {q \in SeqsUpTo(DOMAIN query_fields, MaxRootFields) : q # <<>> /\ Distinct(q)}}
    \cup
    {Request("mutation", NoFragments, FieldsOf(q), Null, EntityErrors) :
        q \in {q \in SeqsUpTo(DOMAIN mutation_fields, MaxRootFields + 1) : q # <<>> /\ Distinct(q)}}

Init ==
    /\ request \in Requests
    /\ plan = NoPlan
    /\ status = <<>> /\ outcome = <<>> /\ sent = <<>> /\ flags = <<>>
    /\ resp = [data |-> Null, errors |-> <<>>]
    /\ returned = FALSE
    /\ reordered = FALSE
    /\ gateway = ReadyGateway
    /\ NoConnection

Next ==
    \/ PlanRequest
    \/ \E n \in DOMAIN status : ExecuteIntrospection(n)
    \/ \E n \in DOMAIN status : SendFetch(n)
    \/ \E n \in DOMAIN status, o \in Outcomes : CompleteFetch(n, o)
    \/ \E n \in DOMAIN status : SendFlatten(n)
    \/ \E n \in DOMAIN status, o \in Outcomes : CompleteFlatten(n, o)
    \/ Finish

Spec == Init /\ [][Next]_vars

(***************************************************************************)
(* SpecPlanner: PlanBuilder::plan over mutation documents whose root       *)
(* selection set holds fields (of the Mutation type, or __typename, which  *)
(* is no field of it), inline fragments and spreads of one fragment.       *)
(***************************************************************************)
MaxSelections == 3

PlannerFragments == [name \in {"frag"} |-> <<Field("deleteUser"), Field("addReview")>>]

PlannerSelections ==
    {Field(name) : name \in DOMAIN mutation_fields \cup {"__typename"}}
    \cup {InlineFragment(<<Field(a), Field(b)>>) :
            a \in {"createUser", "setPrice"}, b \in {"deleteUser", "addReview"}}
    \cup {FragmentSpread("frag"), FragmentSpread("unknown")}

PlannerRequests ==
    {Request("mutation", PlannerFragments, q, Null, EntityErrors) :
        q \in SeqsUpTo(PlannerSelections, MaxSelections) \ {<<>>}}

InitPlanner ==
    /\ request \in PlannerRequests
    /\ plan = NoPlan
    /\ status = <<>> /\ outcome = <<>> /\ sent = <<>> /\ flags = <<>>
    /\ resp = [data |-> Null, errors |-> <<>>]
    /\ returned = FALSE
    /\ reordered = FALSE
    /\ gateway = ReadyGateway
    /\ NoConnection

NextPlanner == PlanRequest

SpecPlanner == InitPlanner /\ [][NextPlanner]_vars

(***************************************************************************)
(* SpecFlatten: the post-event plan of a subscription, one Flatten node,   *)
(* run on an upstream event (execute_stream, lines 136-148: the event is   *)
(* stored as the accumulator, the plan run, the accumulator yielded).      *)
(* Events range over the shapes an upstream can send under the keys "a"    *)
(* and "b" of the node's path: slots that carry the keys of the node's     *)
(* prefix with typename T or U, slots without keys, null and scalar        *)
(* slots, missing keys.  Every slot carries a distinct id.                 *)
(***************************************************************************)
EventLen == 2

SlotKinds == {"T", "U", "plain", "null", "str"}

slot(kind, id) ==
    CASE kind \in {"T", "U"} ->
           ObjOf(<< <<N("id"), Num(id)>>,
                    <<K(9, "__typename"), Str(kind)>>, <<K(9, "id"), Num(id)>> >>)
      [] kind = "plain" -> ObjOf(<< <<N("id"), Num(id)>> >>)
      [] kind = "null"  -> Null
      [] OTHER          -> Str("s")

\* a list of slots with ids base+1, base+2, ...
slot_list(kinds, base) == List([i \in 1..Len(kinds) |-> slot(kinds[i], base + i)])

KindLists(S) == {q \in SeqsUpTo(S, EventLen) : Len(q) = EventLen}

\* the value under "b" in the i-th element of a list under "a"
ElementKinds == {<<"missing">>, <<"T">>, <<"U">>, <<"null">>} \cup KindLists({"T", "U"})

element(kinds, i) ==
    IF kinds = <<"missing">> THEN ObjOf(<< <<N("id"), Num(100 + i)>> >>)
    ELSE IF Len(kinds) = 1
    THEN ObjOf(<< <<N("b"), slot(kinds[1], i * (EventLen + 1))>> >>)
    ELSE ObjOf(<< <<N("b"), slot_list(kinds, i * (EventLen + 1))>> >>)

Events ==
    {Null, ObjOf(<<>>)}
    \cup {ObjOf(<< <<N("a"), slot(k, 1)>> >>) : k \in SlotKinds}
    \cup {ObjOf(<< <<N("a"), slot_list(q, 0)>> >>) : q \in KindLists(SlotKinds)}
    \cup {ObjOf(<< <<N("a"), element(e, 1)>> >>) : e \in ElementKinds}
    \cup {ObjOf(<< <<N("a"), List([i \in 1..EventLen |-> element(q[i], i)])>> >>) :
            q \in KindLists(ElementKinds)}

FlattenPaths ==
    {<<PathSegment("a", l, t)>> : l \in BOOLEAN, t \in {NoType, "T"}}
    \cup {<<PathSegment("a", l1, NoType), PathSegment("b", l2, t)>> :
            l1 \in BOOLEAN, l2 \in BOOLEAN, t \in {NoType, "T"}}

\* execute_stream, line 139, with the plan build_subscribe made
InitStream(paths, events, errors) ==
    /\ request \in {Request("subscription", NoFragments, <<>>, ev, er) :
                      ev \in events, er \in errors}
    /\ plan \in {FlattenNode(FetchEntity("accounts", path, 9)) : path \in paths}
    /\ status = [l \in {<<>>} |-> "idle"]
    /\ outcome = [l \in {<<>>} |-> "none"]
    /\ sent = [l \in {<<>>} |-> <<>>]
    /\ flags = [l \in {<<>>} |-> <<>>]
    /\ resp = [data |-> request.event, errors |-> <<>>]
    /\ returned = FALSE
    /\ reordered = FALSE
    /\ gateway = ReadyGateway
    /\ NoConnection

InitFlatten == InitStream(FlattenPaths, Events, {EntityErrors})

NextFlatten ==
    \/ \E n \in DOMAIN status : SendFlatten(n)
    \/ \E n \in DOMAIN status, o \in Outcomes : CompleteFlatten(n, o)
    \/ Finish

SpecFlatten == InitFlatten /\ [][NextFlatten]_vars

(***************************************************************************)
(* SpecErrors: the same run, over the error paths an entity service can    *)
(* answer with.                                                            *)
(***************************************************************************)
MaxErrorPath == 3

ErrorSteps == {Str("_entities"), Str("x"), Num(0), Num(1)}

ErrorPaths == SeqsUpTo(ErrorSteps, MaxErrorPath)

ErrorLists == {<<ServerError("upstream", p)>> : p \in ErrorPaths}

InitErrors ==
    InitStream(FlattenPaths, {ObjOf(<< <<N("a"), slot_list(<<"T", "T">>, 0)>> >>)}, ErrorLists)

SpecErrors == InitErrors /\ [][NextFlatten]_vars

(***************************************************************************)
(* SpecGateway: one HTTP request against a gateway that starts with no     *)
(* route table and no schema, while the route table is set and update_loop *)
(* composes the schema.                                                    *)
(***************************************************************************)
MaxChanges == 2

MaxRuleErrors == 2

\* graphgate_validation::RuleError
RuleErrors == {[message |-> "unknown field", locations |-> <<1>>],
               [message |-> "unused variable", locations |-> <<2>>]}

\* SharedRouteTable::set_route_table: a Change command is sent to update_loop
set_route_table ==
    /\ gateway.commands < MaxChanges
    /\ gateway' = [gateway EXCEPT !.commands = @ + 1]
    /\ UNCHANGED <<request, plan, status, outcome, sent, flags, resp, returned, reordered>>
    /\ UNCHANGED ws_vars /\ UNCHANGED conn_vars /\ UNCHANGED unit_vars

\* update_loop, the rx.recv() branch: Command::Change
update_loop_change ==
    /\ gateway.commands > 0
    /\ gateway' = [gateway EXCEPT !.commands = @ - 1, !.route_table = TRUE, !.schema = FALSE]
    /\ UNCHANGED <<request, plan, status, outcome, sent, flags, resp, returned, reordered>>
    /\ UNCHANGED ws_vars /\ UNCHANGED conn_vars /\ UNCHANGED unit_vars

\* update_loop, the update_interval.tick() branch: update() returns at once
\* without a route table, and stores the schema when every service answered
\* and the schemas combine
update_loop_tick(composed) ==
    /\ gateway' = IF gateway.route_table /\ composed
                  THEN [gateway EXCEPT !.schema = TRUE]
                  ELSE gateway
    /\ UNCHANGED <<request, plan, status, outcome, sent, flags, resp, returned, reordered>>
    /\ UNCHANGED ws_vars /\ UNCHANGED conn_vars /\ UNCHANGED unit_vars

\* the documents of the clients: one that does not parse, ones validation
\* rejects, and valid ones
GatewayRequests ==
    LET valid == {Request("query", NoFragments, FieldsOf(<<f>>), Null, EntityErrors) :
                    f \in {"me", "topProducts", "__schema"}}
    IN  valid
        \cup {[r EXCEPT !.parse_error = TRUE] : r \in valid}
        \cup {[r EXCEPT !.rule_errors = e] :
                r \in valid, e \in SeqsUpTo(RuleErrors, MaxRuleErrors) \ {<<>>}}

InitGateway ==
    /\ request \in GatewayRequests
    /\ plan = NoPlan
    /\ status = <<>> /\ outcome = <<>> /\ sent = <<>> /\ flags = <<>>
    /\ resp = [data |-> Null, errors |-> <<>>]
    /\ returned = FALSE
    /\ reordered = FALSE
    /\ gateway = NoGateway
    /\ NoConnection

NextGateway ==
    \/ set_route_table
    \/ update_loop_change
    \/ \E composed \in BOOLEAN : update_loop_tick(composed)
    \/ Next

SpecGateway == InitGateway /\ [][NextGateway]_vars

(***************************************************************************)
(* The WebSocket side (crates/handler/src/websocket): server.rs reads the  *)
(* client's messages and polls one stream per subscription id; each stream *)
(* plans and runs Executor::execute_stream, which subscribes through the   *)
(* controller; the controller's actor (controller.rs) owns the upstream    *)
(* connections and the table of subscriptions.                             *)
(***************************************************************************)
Protocols == {"graphql-ws", "graphql-transport-ws"}

\* Protocols::subscribe_message
subscribe_message(protocol, id) ==
    [type |-> IF protocol = "graphql-ws" THEN "start" ELSE "subscribe", id |-> id]

\* Protocols::next_message
next_message(protocol, id, payload) ==
    [type |-> IF protocol = "graphql-ws" THEN "data" ELSE "next", id |-> id,
     payload |-> payload]

\* ServerMessage::Complete
complete_message(id) == [type |-> "complete", id |-> id]

\* the upstream connection is dropped; what was sent on it stays on record
close_upstream(up) ==
    [up EXCEPT !.connected = FALSE, !.subscribe_count = 0, !.inbox = <<>>]

finish_subscribe_keep_count(subscribes, ups, id) ==
    [subscribes |-> [i \in DOMAIN subscribes \ {id} |-> subscribes[i]], upstream |-> ups]

\* WebSocketContext::finish_subscribe
finish_subscribe(subscribes, ups, id) ==
    IF id \notin DOMAIN subscribes
    THEN [subscribes |-> subscribes, upstream |-> ups]
    ELSE [subscribes |-> [i \in DOMAIN subscribes \ {id} |-> subscribes[i]],
          upstream |->
            [s \in DOMAIN ups |->
               IF s \in subscribes[id] /\ ups[s].connected
               THEN IF ups[s].subscribe_count = 1
                    THEN close_upstream(ups[s])
                    ELSE [ups[s] EXCEPT !.subscribe_count = @ - 1]
               ELSE ups[s]]]

\* for the record: the registration of id was dropped for this cause (a Stop
\* command, or a payload its receiver was no longer there for) while these
\* services were serving it
cancel(a, id, cause) ==
    IF id \in DOMAIN a.subscribes
    THEN [a EXCEPT !.cancelled =
            [i \in DOMAIN @ \cup {id} |->
               IF i = id THEN [cause |-> cause, services |-> a.subscribes[id]] ELSE @[i]]]
    ELSE a

\* the actor task ends: its context, with every upstream connection and
\* every sender of a subscription channel, is dropped
actor_gone ==
    /\ actor' = [actor EXCEPT !.alive = FALSE, !.commands = <<>>, !.subscribes = <<>>]
    /\ upstream' = [s \in DOMAIN upstream |-> close_upstream(upstream[s])]

\* WebSocketController::new, where the server has no controller yet
get_or_insert_controller(a) ==
    IF server.controller THEN a ELSE [a EXCEPT !.alive = TRUE]

\* the message server() reads next
Unread == server.open /\ server.read < Len(client.sent)

Message == client.sent[server.read + 1]

Reply(messages) == client' = [client EXCEPT !.received = @ \o messages]

\* server(), ClientMessage::ConnectionInit
server_connection_init ==
    /\ Unread /\ Message.type = "connection_init"
    /\ IF ~server.controller
       THEN /\ server' = [server EXCEPT !.read = @ + 1, !.controller = TRUE]
            /\ actor' = get_or_insert_controller(actor)
            /\ Reply(<<[type |-> "connection_ack"]>>)
            /\ UNCHANGED streams
       ELSE /\ server' = [server EXCEPT !.read = @ + 1, !.open = FALSE]
            /\ Reply(<<[type |-> IF server.protocol = "graphql-ws"
                                 THEN "connection_error" ELSE "close"]>>)
            /\ streams' = <<>>
            /\ UNCHANGED actor
    /\ UNCHANGED upstream /\ UNCHANGED http_vars /\ UNCHANGED conn_vars /\ UNCHANGED unit_vars

\* server(), ClientMessage::Start | ClientMessage::Subscribe
server_subscribe ==
    /\ Unread /\ Message.type \in {"start", "subscribe"}
    /\ server' = [server EXCEPT !.read = @ + 1, !.controller = TRUE]
    /\ actor' = get_or_insert_controller(actor)
    /\ IF Message.document.parse_error
       THEN /\ Reply(<<[type |-> "data", id |-> Message.id,
                        payload |-> Response(Null, <<ServerError("parse error", <<>>)>>)],
                       complete_message(Message.id)>>)
            /\ UNCHANGED streams
       ELSE /\ streams' = [i \in DOMAIN streams \cup {Message.id} |->
                             IF i = Message.id
                             THEN [phase |-> "new", document |-> Message.document,
                                   replies |-> <<>>, rx |-> <<>>, rx_alive |-> TRUE]
                             ELSE streams[i]]
            /\ UNCHANGED client
    /\ UNCHANGED upstream /\ UNCHANGED http_vars /\ UNCHANGED conn_vars /\ UNCHANGED unit_vars

\* server(), ClientMessage::Stop: WebSocketController::stop
server_stop ==
    /\ Unread /\ Message.type = "stop"
    /\ server' = [server EXCEPT !.read = @ + 1, !.controller = TRUE]
    /\ LET a == get_or_insert_controller(actor)
       IN  actor' = IF a.alive
                    THEN [a EXCEPT !.commands = Append(@, [type |-> "stop", id |-> Message.id])]
                    ELSE a
    /\ UNCHANGED <<client, streams, upstream>> /\ UNCHANGED http_vars /\ UNCHANGED conn_vars /\ UNCHANGED unit_vars

\* server(), `_ => {}`
server_ignore ==
    /\ Unread /\ Message.type \in {"complete", "connection_terminate"}
    /\ server' = [server EXCEPT !.read = @ + 1]
    /\ UNCHANGED <<client, streams, actor, upstream>> /\ UNCHANGED http_vars /\ UNCHANGED conn_vars /\ UNCHANGED unit_vars

\* server(), the client's stream closes: the loop returns, the streams and
\* the controller are dropped
server_close ==
    /\ Unread /\ Message.type = "close"
    /\ server' = [server EXCEPT !.read = @ + 1, !.open = FALSE]
    /\ streams' = <<>>
    /\ UNCHANGED <<client, actor, upstream>> /\ UNCHANGED http_vars /\ UNCHANGED conn_vars /\ UNCHANGED unit_vars

\* the stream of server.rs 88-102 up to the await in execute_stream: the
\* plan, then one Subscribe command for each subscribe node
stream_start(id) ==
    /\ server.open /\ id \in DOMAIN streams /\ streams[id].phase = "new"
    /\ LET document == streams[id].document
           checked == check_rules(document)
       IN  IF checked.is_err
           THEN /\ Reply(<<next_message(server.protocol, id, checked.response)>>)
                /\ streams' = [streams EXCEPT ![id].phase = "ended", ![id].rx_alive = FALSE]
                /\ UNCHANGED actor
           ELSE /\ streams' = [streams EXCEPT
                                 ![id].phase = "subscribing",
                                 ![id].replies =
                                    [s \in {document.services[i] : i \in DOMAIN document.services} |->
                                       IF actor.alive THEN "pending" ELSE "err"]]
                /\ actor' = IF actor.alive
                            THEN [actor EXCEPT !.commands = @ \o
                                    [i \in DOMAIN document.services |->
                                       [type |-> "subscribe", id |-> id,
                                        service |-> document.services[i]]]]
                            ELSE actor
                /\ UNCHANGED client
    /\ UNCHANGED <<server, upstream>> /\ UNCHANGED http_vars /\ UNCHANGED conn_vars /\ UNCHANGED unit_vars

try_join_all_some(replies, alive) ==
    IF \E s \in DOMAIN replies : replies[s] = "ok" THEN "ok" ELSE "err"

\* try_join_all over the subscribe calls (executor.rs 88-112): Err with the
\* first call that fails, a call whose reply sender is gone with the actor
\* included; Ok when every call has succeeded
try_join_all(replies, alive) ==
    IF \E s \in DOMAIN replies : replies[s] = "err" \/ (replies[s] = "pending" /\ ~alive)
    THEN "err"
    ELSE IF \A s \in DOMAIN replies : replies[s] = "ok" THEN "ok" ELSE "pending"

\* execute_stream, lines 83-154, from the answer of try_join_all on: the
\* receiver is returned as the stream, or it is dropped, the controller is
\* told to stop the id and the stream is the one response
stream_subscribed(id) ==
    /\ server.open /\ id \in DOMAIN streams /\ streams[id].phase = "subscribing"
    /\ LET res == try_join_all(streams[id].replies, actor.alive)
       IN  IF res = "err"
           THEN /\ actor' = IF actor.alive
                            THEN [actor EXCEPT !.commands = Append(@, [type |-> "stop", id |-> id])]
                            ELSE actor
                /\ Reply(<<next_message(server.protocol, id,
                                        Response(Null, <<ServerError("subscribe failed", <<>>)>>))>>)
                /\ streams' = [streams EXCEPT ![id].phase = "ended", ![id].rx_alive = FALSE,
                                              ![id].rx = <<>>]
           ELSE /\ res = "ok"
                /\ streams' = [streams EXCEPT ![id].phase = "streaming"]
                /\ UNCHANGED <<client, actor>>
    /\ UNCHANGED <<server, upstream>> /\ UNCHANGED http_vars /\ UNCHANGED conn_vars /\ UNCHANGED unit_vars

\* a receiver that hands out the newest response first
recv_newest(rx) == [item |-> rx[Len(rx)], rest |-> SubSeq(rx, 1, Len(rx) - 1)]

\* tokio mpsc UnboundedReceiver::recv as execute_stream calls it, line 137:
\* the oldest response still in the channel, which leaves the channel
recv(rx) == [item |-> Head(rx), rest |-> Tail(rx)]

\* execute_stream, lines 137-146 without a post-event plan (`flatten_node`
\* None: `yield response`), and server(), StreamEvent::Data
stream_forward(id) ==
    /\ server.open /\ id \in DOMAIN streams /\ streams[id].phase = "streaming"
    /\ streams[id].rx # <<>> /\ plan = NoPlan
    /\ Reply(<<next_message(server.protocol, id, recv(streams[id].rx).item)>>)
    /\ streams' = [streams EXCEPT ![id].rx = recv(@).rest]
    /\ UNCHANGED <<server, actor, upstream>> /\ UNCHANGED http_vars /\ UNCHANGED conn_vars /\ UNCHANGED unit_vars

\* the stream ends (every sender of its channel is gone and the channel is
\* empty, or the one response was yielded): GroupedStream::poll_next removes
\* it, and server(), StreamEvent::Complete
stream_end(id) ==
    /\ server.open /\ id \in DOMAIN streams
    /\ \/ streams[id].phase = "ended"
       \/ /\ streams[id].phase = "streaming" /\ streams[id].rx = <<>> /\ ~Running
          /\ ~(actor.alive /\ id \in DOMAIN actor.subscribes)
    /\ Reply(<<complete_message(id)>>)
    /\ streams' = [i \in DOMAIN streams \ {id} |-> streams[i]]
    /\ UNCHANGED <<server, actor, upstream>> /\ UNCHANGED http_vars /\ UNCHANGED conn_vars /\ UNCHANGED unit_vars

\* the protocol each upstream service answers the handshake with
upstream_protocol == [s \in WsServices |->
                        IF s = "accounts" THEN "graphql-ws" ELSE "graphql-transport-ws"]


\* handle_command_subscribe; ensure_upstream connects or fails
actor_subscribe(connected) ==
    /\ actor.alive /\ actor.commands # <<>> /\ Head(actor.commands).type = "subscribe"
    /\ LET command == Head(actor.commands)
           up == upstream[command.service]
           reply(r) == IF command.id \in DOMAIN streams
                          /\ streams[command.id].phase = "subscribing"
                       THEN [streams EXCEPT ![command.id].replies[command.service] = r]
                       ELSE streams
           connect == upstream_protocol[command.service]
       IN  /\ up.connected => connected
           /\ IF ~connected
              THEN /\ actor' = [actor EXCEPT !.commands = Tail(@)]
                   /\ streams' = reply("err")
                   /\ UNCHANGED upstream
              ELSE /\ upstream' = [upstream EXCEPT ![command.service] =
                                     [@ EXCEPT !.connected = TRUE, !.protocol = connect,
                                               !.subscribe_count = @ + 1,
                                               !.opened = IF up.connected THEN @ ELSE Len(up.log),
                                               !.log = Append(@, subscribe_message(connect, command.id))]]
                   /\ actor' = [actor EXCEPT
                                  !.commands = Tail(@),
                                  !.subscribes =
                                     [i \in DOMAIN @ \cup {command.id} |->
                                        IF i \in DOMAIN @
                                        THEN IF i = command.id THEN @[i] \cup {command.service}
                                             ELSE @[i]
                                        ELSE {command.service}]]
                   /\ streams' = reply("ok")
    /\ UNCHANGED <<client, server>> /\ UNCHANGED http_vars /\ UNCHANGED conn_vars /\ UNCHANGED unit_vars

\* handle_command_stop
actor_stop ==
    /\ actor.alive /\ actor.commands # <<>> /\ Head(actor.commands).type = "stop"
    /\ LET after == finish_subscribe(actor.subscribes, upstream, Head(actor.commands).id)
       IN  /\ actor' = [cancel(actor, Head(actor.commands).id, "stop") EXCEPT
                          !.commands = Tail(@), !.subscribes = after.subscribes]
           /\ upstream' = after.upstream
    /\ UNCHANGED <<client, server, streams>> /\ UNCHANGED http_vars /\ UNCHANGED conn_vars /\ UNCHANGED unit_vars

\* handle_event on the next message of an upstream
actor_event(service) ==
    /\ actor.alive /\ upstream[service].connected /\ upstream[service].inbox # <<>>
    /\ LET message == Head(upstream[service].inbox)
           taken == [upstream EXCEPT ![service].inbox = Tail(@)]
           after == finish_subscribe(actor.subscribes, taken, message.id)
       IN  IF message.type \in {"data", "next"}
           THEN IF message.id \in DOMAIN actor.subscribes
                THEN IF message.id \in DOMAIN streams /\ streams[message.id].rx_alive
                     THEN /\ streams' = [streams EXCEPT ![message.id].rx = Append(@, message.payload)]
                          /\ upstream' = taken
                          /\ UNCHANGED actor
                     ELSE /\ actor' = [cancel(actor, message.id, "dropped") EXCEPT
                                         !.subscribes = after.subscribes]
                          /\ upstream' = after.upstream
                          /\ UNCHANGED streams
                ELSE /\ upstream' = taken
                     /\ UNCHANGED <<actor, streams>>
           ELSE IF message.type = "complete"
           THEN /\ actor' = [actor EXCEPT !.subscribes = after.subscribes]
                /\ upstream' = after.upstream
                /\ UNCHANGED streams
           ELSE /\ actor_gone
                /\ UNCHANGED streams
    /\ UNCHANGED <<client, server>> /\ UNCHANGED http_vars /\ UNCHANGED conn_vars /\ UNCHANGED unit_vars

\* WebSocketContext::main, `None => return`: every controller handle is gone
\* and no command is left
actor_return ==
    /\ actor.alive /\ ~server.open /\ actor.commands = <<>>
    /\ actor_gone
    /\ UNCHANGED <<client, server, streams>> /\ UNCHANGED http_vars /\ UNCHANGED conn_vars /\ UNCHANGED unit_vars

(***************************************************************************)
(* SpecWebSocket: one client connection under either protocol, with the    *)
(* client, the upstream services and the connection attempts as the        *)
(* environment.                                                            *)
(***************************************************************************)
MaxClientMessages == 2

MaxUpstreamMessages == 1

\* the subscription ids of the client
WsIds == {1, 2}

\* the operations of the clients: one that does not parse, one validation
\* rejects, subscriptions of one service and of two
Documents ==
    LET subscription(services) ==
          [parse_error |-> FALSE, rule_errors |-> <<>>, services |-> services]
    IN  {[subscription(<<>>) EXCEPT !.parse_error = TRUE],
         [subscription(<<>>) EXCEPT !.rule_errors = <<CHOOSE e \in RuleErrors : TRUE>>],
         subscription(<<"accounts">>), subscription(<<"accounts", "products">>)}

\* what a client of the protocol sends after its connection_init: a
\* subscription with an id not used before, the end of one of its
\* subscriptions, connection_init again, or the close; the last two end the
\* connection
ClientMessages(protocol, messages) ==
    LET started == {messages[i].id : i \in {i \in DOMAIN messages :
                                               messages[i].type \in {"start", "subscribe"}}}
    IN  IF messages # <<>> /\ messages[Len(messages)].type \in {"close", "connection_init"}
        THEN {}
        ELSE {[type |-> "connection_init"], [type |-> "close"]}
             \cup {[type |-> subscribe_message(protocol, id).type, id |-> id, document |-> d] :
                     id \in {i \in WsIds : i = Cardinality(started) + 1}, d \in Documents}
             \cup {[type |-> IF protocol = "graphql-ws" THEN "stop" ELSE "complete", id |-> id] :
                     id \in started}

\* the messages a client sends on one connection, whenever it sends them
RECURSIVE ClientScripts(_, _)
ClientScripts(protocol, n) ==
    IF n = 0 THEN {<<>>}
    ELSE LET shorter == ClientScripts(protocol, n - 1)
         IN  shorter \cup UNION {{Append(q, m) : m \in ClientMessages(protocol, q)} :
                                    q \in shorter}

\* what an upstream sends on its connection: a payload or the completion of
\* a subscription it was sent there, or something that is no server message
UpstreamMessages(service) ==
    LET up == upstream[service]
        ids == {up.log[i].id : i \in {i \in DOMAIN up.log : i > up.opened}}
    IN  {next_message(up.protocol, id, Response(Obj(<< <<service, Num(up.sent)>> >>), <<>>)) :
            id \in ids}
        \cup {complete_message(id) : id \in ids}
        \cup {[type |-> "invalid", id |-> 0]}

upstream_send(service, message) ==
    /\ upstream[service].connected
    /\ upstream["accounts"].sent + upstream["products"].sent < MaxUpstreamMessages
    /\ upstream' = [upstream EXCEPT ![service].inbox = Append(@, message),
                                    ![service].sent = @ + 1]
    /\ UNCHANGED <<client, server, streams, actor>> /\ UNCHANGED http_vars /\ UNCHANGED conn_vars /\ UNCHANGED unit_vars

InitWebSocket ==
    /\ request = Request("subscription", NoFragments, <<>>, Null, EntityErrors)
    /\ plan = NoPlan
    /\ status = <<>> /\ outcome = <<>> /\ sent = <<>> /\ flags = <<>>
    /\ resp = [data |-> Null, errors |-> <<>>]
    /\ returned = FALSE
    /\ reordered = FALSE
    /\ gateway = ReadyGateway
    /\ server \in {[protocol |-> p, open |-> TRUE, read |-> 0, controller |-> FALSE] :
                     p \in Protocols}
    /\ client \in {[sent |-> <<[type |-> "connection_init"]>> \o q, received |-> <<>>] :
                     q \in ClientScripts(server.protocol, MaxClientMessages)}
    /\ streams = <<>>
    /\ actor = [alive |-> FALSE, commands |-> <<>>, subscribes |-> <<>>, cancelled |-> <<>>]
    /\ upstream = [s \in WsServices |-> NoUpstream]
    /\ NoTransport /\ NoUnits

NextWebSocket ==
    \/ server_connection_init
    \/ server_subscribe
    \/ server_stop
    \/ server_ignore
    \/ server_close
    \/ \E id \in DOMAIN streams : stream_start(id)
    \/ \E id \in DOMAIN streams : stream_subscribed(id)
    \/ \E id \in DOMAIN streams : stream_forward(id)
    \/ \E id \in DOMAIN streams : stream_end(id)
    \/ \E connected \in BOOLEAN : actor_subscribe(connected)
    \/ actor_stop
    \/ \E service \in WsServices : actor_event(service)
    \/ actor_return
    \/ \E service \in WsServices :
         \E message \in UpstreamMessages(service) : upstream_send(service, message)

SpecWebSocket == InitWebSocket /\ [][NextWebSocket]_vars

(***************************************************************************)
(* execute_stream with a post-event plan: the plan of a subscription whose *)
(* events need entity fields of another service is a Flatten node that is  *)
(* run on every event before the event is forwarded.                       *)
(***************************************************************************)

\* execute_stream, lines 137-142: `while let Some(response) = stream.recv().await`
\* with `flatten_node` Some: `*self.resp.lock().await = response`, and
\* execute_node starts on the post-event plan
stream_recv(id) ==
    /\ server.open /\ id \in DOMAIN streams /\ streams[id].phase = "streaming"
    /\ streams[id].rx # <<>> /\ plan # NoPlan /\ returned
    /\ LET response == recv(streams[id].rx).item
       IN  resp' = [data |-> response.data, errors |-> response.errors]
    /\ streams' = [streams EXCEPT ![id].rx = recv(@).rest]
    /\ status' = [l \in DOMAIN status |-> "idle"]
    /\ outcome' = [l \in DOMAIN outcome |-> "none"]
    /\ sent' = [l \in DOMAIN sent |-> <<>>]
    /\ flags' = [l \in DOMAIN flags |-> <<>>]
    /\ returned' = FALSE
    /\ UNCHANGED <<request, plan, reordered, gateway>>
    /\ UNCHANGED <<client, server, actor, upstream>> /\ UNCHANGED conn_vars /\ UNCHANGED unit_vars

\* execute_stream, lines 142-144: execute_node has returned, and
\* `yield std::mem::take(&mut *self.resp.lock().await)` leaves the default
\* Response in the accumulator; streams[id].outcomes keeps what the fetcher
\* answered for each event
stream_yield(id) ==
    /\ server.open /\ id \in DOMAIN streams /\ streams[id].phase = "streaming"
    /\ Running /\ NodeDone(<<>>)
    /\ Reply(<<next_message(server.protocol, id, Response(resp.data, resp.errors))>>)
    /\ resp' = [data |-> Null, errors |-> <<>>]
    /\ returned' = TRUE
    /\ streams' = [streams EXCEPT ![id].outcomes = Append(@, outcome[<<>>])]
    /\ UNCHANGED <<request, plan, status, outcome, sent, flags, reordered, gateway>>
    /\ UNCHANGED <<server, actor, upstream>> /\ UNCHANGED conn_vars /\ UNCHANGED unit_vars

MaxEvents == 2

\* the path of the post-event plan: a single object or a list under "a"
StreamPaths == {<<PathSegment("a", FALSE, "T")>>, <<PathSegment("a", TRUE, NoType)>>}

\* the events an upstream subscription delivers: data with or without
\* entities to resolve, with or without errors of its own
StreamEvents ==
    {Response(data, errors) :
       data \in {Null,
                 ObjOf(<< <<N("a"), slot("T", 1)>> >>),
                 ObjOf(<< <<N("a"), slot("T", 2)>> >>),
                 ObjOf(<< <<N("a"), slot("U", 1)>> >>),
                 ObjOf(<< <<N("a"), slot_list(<<"T", "plain">>, 2)>> >>)},
       errors \in {<<>>, <<ServerError("event", <<>>)>>}}

\* execute_stream at line 136: the subscription is established, the events
\* are in the channel in the order they arrived, the accumulator is idle
InitStreamEvents ==
    /\ request = Request("subscription", NoFragments, <<>>, Null, EntityErrors)
    /\ plan \in {NoPlan} \cup {FlattenNode(FetchEntity("accounts", path, 9)) :
                                  path \in StreamPaths}
    /\ status = IF plan = NoPlan THEN <<>> ELSE [l \in {<<>>} |-> "idle"]
    /\ outcome = IF plan = NoPlan THEN <<>> ELSE [l \in {<<>>} |-> "none"]
    /\ sent = IF plan = NoPlan THEN <<>> ELSE [l \in {<<>>} |-> <<>>]
    /\ flags = IF plan = NoPlan THEN <<>> ELSE [l \in {<<>>} |-> <<>>]
    /\ resp = [data |-> Null, errors |-> <<>>]
    /\ returned = (plan # NoPlan)
    /\ reordered = FALSE
    /\ gateway = ReadyGateway
    /\ server \in {[protocol |-> p, open |-> TRUE, read |-> 1, controller |-> TRUE] :
                     p \in Protocols}
    /\ client = [sent |-> <<[type |-> "connection_init"]>>, received |-> <<>>]
    /\ streams \in {[i \in {1} |-> [phase |-> "streaming", rx |-> q, rx_alive |-> TRUE,
                                     arrived |-> q, outcomes |-> <<>>]] :
                      q \in SeqsUpTo(StreamEvents, MaxEvents) \ {<<>>}}
    /\ actor = [alive |-> FALSE, commands |-> <<>>, subscribes |-> <<>>, cancelled |-> <<>>]
    /\ upstream = [s \in WsServices |-> NoUpstream]
    /\ NoTransport /\ NoUnits

NextStreamEvents ==
    \/ \E id \in DOMAIN streams : stream_recv(id)
    \/ \E n \in DOMAIN status : SendFlatten(n)
    \/ \E n \in DOMAIN status, o \in Outcomes : CompleteFlatten(n, o)
    \/ \E id \in DOMAIN streams : stream_yield(id)
    \/ \E id \in DOMAIN streams : stream_forward(id)
    \/ \E id \in DOMAIN streams : stream_end(id)

SpecStreamEvents == InitStreamEvents /\ [][NextStreamEvents]_vars

(***************************************************************************)
(* Connecting to an upstream over WebSocket, with time.  `waited` counts   *)
(* the seconds since connection_init was sent, `slept` the seconds a       *)
(* connect task has slept; a second passes only while no timer is due.     *)
(***************************************************************************)

\* ensure_upstream, lines 174-198: connect_async, the protocol header and the
\* send of connection_init (each may fail), then the 5 s sleep is created
ensure_upstream_init(ok) ==
    /\ ensure.state # "waiting"
    /\ ensure' = IF ok THEN [state |-> "waiting", waited |-> 0, result |-> ""]
                 ELSE [state |-> "err", waited |-> 0, result |-> "Connection error."]
    /\ UNCHANGED transport /\ UNCHANGED http_vars /\ UNCHANGED ws_vars /\ UNCHANGED unit_vars

\* ensure_upstream, line 202: `_ = &mut timeout => return Err("Connect timeout.")`
ensure_upstream_timeout ==
    /\ ensure.state = "waiting" /\ ensure.waited >= CONNECT_TIMEOUT_SECONDS
    /\ ensure' = [ensure EXCEPT !.state = "err", !.result = "Connect timeout."]
    /\ UNCHANGED transport /\ UNCHANGED http_vars /\ UNCHANGED ws_vars /\ UNCHANGED unit_vars

\* what the upstream answers connection_init with (other messages are skipped
\* by both loops and change nothing)
HandshakeMessages == {"connection_ack", "connection_error", "close"}

\* ensure_upstream, lines 203-219: the `message = stream.next()` branch
ensure_upstream_message(message) ==
    /\ ensure.state = "waiting"
    /\ ensure' = IF message = "connection_ack"
                 THEN [ensure EXCEPT !.state = "ok"]
                 ELSE [ensure EXCEPT !.state = "err",
                                     !.result = IF message = "close"
                                                THEN "Connection closed by server."
                                                ELSE "Connection error."]
    /\ UNCHANGED transport /\ UNCHANGED http_vars /\ UNCHANGED ws_vars /\ UNCHANGED unit_vars

\* do_connect, lines 70-102: the sleep is over, connect_async, the protocol
\* header and the send of connection_init; a failure is the task's result
do_connect_init(ok) ==
    /\ \/ transport.attempt.state = "connecting"
       \/ /\ transport.attempt.state = "sleeping"
          /\ transport.attempt.slept >= transport.attempt.delay
    /\ transport' = IF ok THEN [transport EXCEPT !.attempt.state = "waiting"]
                    ELSE [transport EXCEPT !.attempt = NoAttempt,
                                           !.rx_connect = Append(@, "err")]
    /\ UNCHANGED ensure /\ UNCHANGED http_vars /\ UNCHANGED ws_vars /\ UNCHANGED unit_vars

\* do_connect, lines 104-129: the loop on `stream.next().await`, and
\* spawn_connect's `tx.send(...)` of the result
do_connect_message(message) ==
    /\ transport.attempt.state = "waiting"
    /\ transport' = [transport EXCEPT
                       !.attempt = NoAttempt,
                       !.rx_connect = Append(@, IF message = "connection_ack"
                                                THEN "ok" ELSE "err")]
    /\ UNCHANGED ensure /\ UNCHANGED http_vars /\ UNCHANGED ws_vars /\ UNCHANGED unit_vars

\* main_loop, lines 155-169: the result of a connect task
main_loop_connect_resp ==
    /\ transport.rx_connect # <<>>
    /\ LET taken == [transport EXCEPT !.rx_connect = Tail(@)]
       IN  transport' = IF Head(transport.rx_connect) = "ok"
                        THEN [taken EXCEPT !.sink = TRUE]
                        ELSE spawn_connect(taken, RECONNECT_DELAY_SECONDS)
    /\ UNCHANGED ensure /\ UNCHANGED http_vars /\ UNCHANGED ws_vars /\ UNCHANGED unit_vars

\* main_loop, lines 193-210: a read error, or the stream closed by the server
main_loop_read_failure(error) ==
    /\ transport.sink
    /\ LET ids == transport.pending_requests
           drained == [transport EXCEPT
                         !.pending_requests = {},
                         !.replies = @ \o [i \in 1..Cardinality(ids) |-> error],
                         !.sink = FALSE]
       IN  transport' = spawn_connect(drained, RECONNECT_DELAY_SECONDS)
    /\ UNCHANGED ensure /\ UNCHANGED http_vars /\ UNCHANGED ws_vars /\ UNCHANGED unit_vars

MaxRequests == 2

\* a main loop that keeps the command of an unconnected transport for later
command_queued(t, kind) ==
    [t EXCEPT !.req_id = @ + 1,
              !.pending_requests = IF kind = "Query" THEN @ \cup {t.req_id + 1} ELSE @,
              !.subscribes = IF kind = "Subscribe" THEN @ \cup {t.req_id + 1} ELSE @,
              !.replies = IF kind = "Subscribe" THEN Append(@, "Ok") ELSE @,
              !.sent = IF t.sink THEN Append(@, [kind |-> kind, id |-> t.req_id + 1]) ELSE @,
              !.handled = @ + 1]

\* main_loop, lines 213-267: Command::Query and Command::Subscribe; `sent` is
\* what went to the sink (start or subscribe, by the protocol), `replies`
\* what the callers of Transport::query and Transport::subscribe were
\* answered, `handled` the number of commands taken from the channel
command(t, kind) ==
    IF t.sink
    THEN [t EXCEPT !.req_id = @ + 1,
                   !.pending_requests = IF kind = "Query" THEN @ \cup {t.req_id + 1} ELSE @,
                   !.subscribes = IF kind = "Subscribe" THEN @ \cup {t.req_id + 1} ELSE @,
                   !.replies = IF kind = "Subscribe" THEN Append(@, "Ok") ELSE @,
                   !.sent = Append(@, [kind |-> kind, id |-> t.req_id + 1]),
                   !.handled = @ + 1]
    ELSE [t EXCEPT !.replies = Append(@, "Not ready."), !.handled = @ + 1]

\* main_loop, line 213: `command = rx.recv()`
main_loop_command(kind) ==
    /\ transport.handled < MaxRequests
    /\ transport' = command(transport, kind)
    /\ UNCHANGED ensure /\ UNCHANGED http_vars /\ UNCHANGED ws_vars /\ UNCHANGED unit_vars

MaxWait == 6

\* one second passes: tokio's timers (controller.rs line 197, transports
\* websocket.rs line 71) fire when due, so time stands still while one is due
tick ==
    LET timeout_due == ensure.state = "waiting" /\ ensure.waited >= CONNECT_TIMEOUT_SECONDS
        sleep_due == /\ transport.attempt.state = "sleeping"
                     /\ transport.attempt.slept >= transport.attempt.delay
    IN  /\ ~timeout_due /\ ~sleep_due
        /\ \/ ensure.state = "waiting"
           \/ transport.attempt.state = "sleeping"
           \/ transport.attempt.state = "waiting" /\ transport.attempt.waited < MaxWait
        /\ ensure' = IF ensure.state = "waiting"
                     THEN [ensure EXCEPT !.waited = @ + 1] ELSE ensure
        /\ transport' =
             CASE transport.attempt.state = "sleeping" ->
                    [transport EXCEPT !.attempt.slept = @ + 1]
               [] transport.attempt.state = "waiting"
                  /\ transport.attempt.waited < MaxWait ->
                    [transport EXCEPT !.attempt.waited = @ + 1]
               [] OTHER -> transport
        /\ UNCHANGED http_vars /\ UNCHANGED ws_vars /\ UNCHANGED unit_vars

InitConnect ==
    /\ request = Request("query", NoFragments, <<>>, Null, <<>>)
    /\ plan = NoPlan
    /\ status = <<>> /\ outcome = <<>> /\ sent = <<>> /\ flags = <<>>
    /\ resp = [data |-> Null, errors |-> <<>>]
    /\ returned = FALSE
    /\ reordered = FALSE
    /\ gateway = ReadyGateway
    /\ NoConnection

NextConnect ==
    \/ \E ok \in BOOLEAN : ensure_upstream_init(ok)
    \/ ensure_upstream_timeout
    \/ \E message \in HandshakeMessages : ensure_upstream_message(message)
    \/ \E ok \in BOOLEAN : do_connect_init(ok)
    \/ \E message \in HandshakeMessages : do_connect_message(message)
    \/ main_loop_connect_resp
    \/ \E error \in {"Connection error.", "Connection closed by server."} :
         main_loop_read_failure(error)
    \/ \E kind \in {"Query", "Subscribe"} : main_loop_command(kind)
    \/ tick

SpecConnect == InitConnect /\ [][NextConnect]_vars

(***************************************************************************)
(* ComposedSchema::combine: the subgraphs' documents are folded, one type  *)
(* definition at a time, into the map of composed types.  A MetaType here  *)
(* is its kind, its owner and the service of each of its fields (NoService *)
(* for a field of a definition that is not an extension).                  *)
(***************************************************************************)
TypeDefinition(name, kind, extend, fields) ==
    [name |-> name, kind |-> kind, extend |-> extend, fields |-> fields]

\* the entry `or_insert_with` creates, lines 248-263
EmptyObject == [kind |-> "Object", owner |-> NoService, fields |-> <<>>]

\* combine, lines 293-313: the loop over the fields of an object definition
RECURSIVE combine_fields(_, _, _, _)
combine_fields(meta_type, service, is_extend, fields) ==
    IF fields = <<>> THEN [ok |-> TRUE, meta_type |-> meta_type]
    ELSE LET field == Head(fields)
         IN  IF is_extend /\ field.external
             THEN combine_fields(meta_type, service, is_extend, Tail(fields))
             ELSE IF field.name \in DOMAIN meta_type.fields
             THEN [ok |-> FALSE, error |-> "FieldConflicted"]
             ELSE combine_fields(
                    [meta_type EXCEPT !.fields =
                       [k \in DOMAIN @ \cup {field.name} |->
                          IF k = field.name
                          THEN IF is_extend THEN service ELSE NoService
                          ELSE @[k]]],
                    service, is_extend, Tail(fields))

\* combine, lines 239-313: an object definition
combine_object(types, service, definition) ==
    LET entry == IF definition.name \in DOMAIN types
                 THEN types[definition.name] ELSE EmptyObject
        owned == IF definition.extend THEN entry ELSE [entry EXCEPT !.owner = service]
        done  == combine_fields(owned, service, definition.extend, definition.fields)
    IN  IF done.ok
        THEN [ok |-> TRUE,
              types |-> [k \in DOMAIN types \cup {definition.name} |->
                           IF k = definition.name THEN done.meta_type ELSE types[k]]]
        ELSE done

\* convert_type_definition for a definition that is no object
convert_type_definition(definition) ==
    [kind |-> definition.kind, owner |-> NoService,
     fields |-> [k \in {definition.fields[i].name : i \in DOMAIN definition.fields} |->
                   NoService]]

\* combine, lines 314-326: any other definition
combine_other(types, definition) ==
    LET meta_type == convert_type_definition(definition)
    IN  IF definition.name \in DOMAIN types /\ types[definition.name] # meta_type
        THEN [ok |-> FALSE, error |-> "DefinitionConflicted"]
        ELSE [ok |-> TRUE,
              types |-> [k \in DOMAIN types \cup {definition.name} |->
                           IF k = definition.name THEN meta_type ELSE types[k]]]

\* combine, lines 235-334: one turn of the inner loop
combine_definition ==
    /\ composer.stage = "combining" /\ composer.at <= Len(composer.sdl)
    /\ LET item == composer.sdl[composer.at]
           step == IF item.definition.kind = "Object"
                   THEN combine_object(composer.types, item.service, item.definition)
                   ELSE combine_other(composer.types, item.definition)
       IN  composer' = IF step.ok
                       THEN [composer EXCEPT !.types = step.types, !.at = @ + 1]
                       ELSE [composer EXCEPT !.stage = "done", !.result = step.error]
    /\ UNCHANGED <<builder, merger, guard>>
    /\ UNCHANGED http_vars /\ UNCHANGED ws_vars /\ UNCHANGED conn_vars /\ UNCHANGED loop_vars

\* combine, lines 336-351: every document is folded in, `Ok(composed_schema)`
combine_finish ==
    /\ composer.stage = "combining" /\ composer.at > Len(composer.sdl)
    /\ composer' = [composer EXCEPT !.stage = "done", !.result = "Ok"]
    /\ UNCHANGED <<builder, merger, guard>>
    /\ UNCHANGED http_vars /\ UNCHANGED ws_vars /\ UNCHANGED conn_vars /\ UNCHANGED loop_vars

MaxFields == 2

\* field definitions of a subgraph: a name, and whether it carries @external
FieldDefinitions ==
    {[name |-> "id", external |-> FALSE], [name |-> "id", external |-> TRUE],
     [name |-> "name", external |-> FALSE]}

\* the definitions of the type User a subgraph may contribute
TypeDefinitions ==
    {TypeDefinition("User", kind, extend, fields) :
       kind \in {"Object", "Interface"}, extend \in BOOLEAN,
       fields \in {q \in SeqsUpTo(FieldDefinitions, MaxFields) \ {<<>>} :
                     \A i, j \in DOMAIN q : q[i].name = q[j].name => i = j}}

\* combine at line 235: the root objects are in, two subgraphs with one
\* definition each are to be folded
InitCombine ==
    /\ request = Request("query", NoFragments, <<>>, Null, <<>>)
    /\ plan = NoPlan
    /\ status = <<>> /\ outcome = <<>> /\ sent = <<>> /\ flags = <<>>
    /\ resp = [data |-> Null, errors |-> <<>>]
    /\ returned = FALSE
    /\ reordered = FALSE
    /\ gateway = NoGateway
    /\ client = [sent |-> <<>>, received |-> <<>>]
    /\ server = [protocol |-> "graphql-ws", open |-> FALSE, read |-> 0, controller |-> FALSE]
    /\ streams = <<>>
    /\ actor = [alive |-> FALSE, commands |-> <<>>, subscribes |-> <<>>, cancelled |-> <<>>]
    /\ upstream = [s \in WsServices |-> NoUpstream]
    /\ NoTransport
    /\ composer \in {[stage |-> "combining",
                       sdl |-> << [service |-> "accounts", definition |-> a],
                                  [service |-> "reviews", definition |-> b] >>,
                       at |-> 1,
                       types |-> [k \in {"Query", "Mutation", "Subscription"} |-> EmptyObject],
                       result |-> "pending"] :
                        a \in TypeDefinitions, b \in TypeDefinitions}
    /\ builder = [stage |-> "none"]
    /\ merger = [stage |-> "none"]
    /\ guard = Free
    /\ NoLoops

NextCombine == combine_definition \/ combine_finish

SpecCombine == InitCombine /\ [][NextCombine]_vars

(***************************************************************************)
(* The plan builder on whole documents: fields with aliases, arguments and *)
(* directives, fragments with type conditions, variables.  The composed    *)
(* schema is the one of the examples (accounts, products, reviews) with an *)
(* interface and a union added: a MetaType is its kind, owner, keys per    *)
(* service (the first @key of the service), fields and possible types.     *)
(***************************************************************************)
MetaField(ty, is_list, service) ==
    [ty |-> ty, is_list |-> is_list, service |-> service, requires |-> None]

\* KeyFields: an IndexMap from the name of a field to the KeyFields of its
\* selection set, in the order of the @key or @requires directive
Key(name, children) == [name |-> name, children |-> children]

FlatKeys(names) == [i \in DOMAIN names |-> Key(names[i], <<>>)]

\* a field with @requires(fields: ...)
Requires(meta_field, requires) == [meta_field EXCEPT !.requires = Some(requires)]

MetaType(kind, owner, keys, fields, possible_types) ==
    [kind |-> kind, owner |-> owner, keys |-> keys, fields |-> fields,
     possible_types |-> possible_types]

NoKeys == [s \in {} |-> <<>>]

NoFields == [f \in {} |-> MetaField("String", FALSE, NoService)]

schema_types ==
    [name \in {"Query", "User", "Product", "Review", "Node", "SearchResult", "String",
                "Account", "Org"} |->
       CASE name = "Query" ->
              MetaType("Object", NoService, NoKeys,
                       [f \in {"me", "topProducts", "node", "search", "viewer",
                               "__schema", "__type"} |->
                          CASE f = "me"          -> MetaField("User", FALSE, "accounts")
                            [] f = "viewer"      -> MetaField("Account", FALSE, "accounts")
                            [] f = "topProducts" -> MetaField("Product", TRUE, "products")
                            [] f = "node"        -> MetaField("Node", FALSE, "accounts")
                            [] f = "search"      -> MetaField("SearchResult", TRUE, "reviews")
                            [] OTHER             -> MetaField("String", FALSE, NoService)],
                       <<>>)
         [] name = "User" ->
              MetaType("Object", "accounts",
                       [s \in {"accounts", "reviews"} |-> FlatKeys(<<"id">>)],
                       [f \in {"id", "username", "reviews"} |->
                          IF f = "reviews" THEN MetaField("Review", TRUE, "reviews")
                          ELSE MetaField("String", FALSE, NoService)],
                       <<>>)
         [] name = "Product" ->
              MetaType("Object", "products",
                       [s \in {"products", "reviews"} |-> FlatKeys(<<"upc">>)],
                       [f \in {"upc", "name", "reviews"} |->
                          IF f = "reviews" THEN MetaField("Review", TRUE, "reviews")
                          ELSE MetaField("String", FALSE, NoService)],
                       <<>>)
         [] name = "Review" ->
              MetaType("Object", "reviews",
                       [s \in {"reviews"} |-> FlatKeys(<<"id">>)],
                       [f \in {"id", "body", "author", "product"} |->
                          CASE f = "author"  -> MetaField("User", FALSE, NoService)
                            [] f = "product" -> MetaField("Product", FALSE, NoService)
                            [] OTHER         -> MetaField("String", FALSE, NoService)],
                       <<>>)
         [] name = "Account" ->
              \* type Account @key(fields: "org { id region } login"), extended by
              \* reviews with `reviews` and `karma @requires(fields: "email")`
              MetaType("Object", "accounts",
                       [s \in {"accounts", "reviews"} |->
                          <<Key("org", FlatKeys(<<"id", "region">>)), Key("login", <<>>)>>],
                       [f \in {"org", "login", "email", "reviews", "karma"} |->
                          CASE f = "org"     -> MetaField("Org", FALSE, NoService)
                            [] f = "reviews" -> MetaField("Review", TRUE, "reviews")
                            [] f = "karma"   -> Requires(MetaField("String", FALSE, "reviews"),
                                                         FlatKeys(<<"email">>))
                            [] OTHER         -> MetaField("String", FALSE, NoService)],
                       <<>>)
         [] name = "Org" ->
              MetaType("Object", NoService, NoKeys,
                       [f \in {"id", "region"} |-> MetaField("String", FALSE, NoService)],
                       <<>>)
         [] name = "Node" ->
              MetaType("Interface", NoService, NoKeys,
                       [f \in {"id"} |-> MetaField("String", FALSE, NoService)],
                       <<"User", "Review">>)
         [] name = "SearchResult" ->
              MetaType("Union", NoService, NoKeys, NoFields, <<"User", "Product">>)
         [] OTHER -> MetaType("Scalar", NoService, NoKeys, NoFields, <<>>)]

\* Value: a constant or a variable, or a list of values
Const(c) == [v |-> "const", c |-> c]

Variable(name) == [v |-> "variable", name |-> name]

ListValue(items) == [v |-> "list", items |-> items]

\* Value::referenced_variables
RECURSIVE Value_referenced_variables(_)
Value_referenced_variables(value) ==
    CASE value.v = "variable" -> <<value.name>>
      [] value.v = "list" ->
           Concat([i \in DOMAIN value.items |-> Value_referenced_variables(value.items[i])])
      [] OTHER -> <<>>

Argument(name, value) == [name |-> name, value |-> value]

Directive(name, arguments) == [name |-> name, arguments |-> arguments]

\* parser::types::Field, FragmentSpread, InlineFragment and FragmentDefinition
DocField(alias, name, arguments, directives, selection_set) ==
    [sel |-> "Field", alias |-> alias, name |-> name, arguments |-> arguments,
     directives |-> directives, selection_set |-> selection_set]

DocSpread(fragment_name, directives) ==
    [sel |-> "FragmentSpread", fragment_name |-> fragment_name, directives |-> directives]

DocInline(type_condition, directives, selection_set) ==
    [sel |-> "InlineFragment", type_condition |-> type_condition,
     directives |-> directives, selection_set |-> selection_set]

FragmentDefinition(type_condition, selection_set) ==
    [type_condition |-> type_condition, selection_set |-> selection_set]

\* Field::response_key
response_key(field) == IF field.alias # "" THEN field.alias ELSE field.name

\* SelectionRef
FieldRef(field, selection_set) ==
    [ref |-> "FieldRef", field |-> field, selection_set |-> selection_set]

IntrospectionTypename == [ref |-> "IntrospectionTypename"]

RequiredRef(prefix, fields, requires) ==
    [ref |-> "RequiredRef", prefix |-> prefix, fields |-> fields, requires |-> requires]

InlineFragmentRef(type_condition, selection_set) ==
    [ref |-> "InlineFragment", type_condition |-> type_condition,
     selection_set |-> selection_set]

\* field_in_keys, lines 833-879: the field is a key, and so is every field
\* of its selection set, fragments unfolded, among the children of the key
RECURSIVE field_in_keys(_, _, _), selection_set_in_keys(_, _, _)
field_in_keys(fragments, field, keys) ==
    \E i \in DOMAIN keys :
       /\ keys[i].name = field.name
       /\ selection_set_in_keys(fragments, field.selection_set, keys[i].children)

selection_set_in_keys(fragments, selection_set, keys) ==
    \A i \in DOMAIN selection_set :
       LET selection == selection_set[i]
       IN  CASE selection.sel = "Field" -> field_in_keys(fragments, selection, keys)
             [] selection.sel = "FragmentSpread" ->
                  /\ selection.fragment_name \in DOMAIN fragments
                  /\ selection_set_in_keys(fragments,
                                           fragments[selection.fragment_name].selection_set,
                                           keys)
             [] OTHER -> selection_set_in_keys(fragments, selection.selection_set, keys)

\* a builder whose counter stands still
take_key_prefix_same(st) == [prefix |-> st.key_id, st |-> st]

\* take_key_prefix
take_key_prefix(st) == [prefix |-> st.key_id, st |-> [st EXCEPT !.key_id = @ + 1]]

\* add_fetch_entity; st carries the fragments, the selection_ref_set written
\* to (out), the fetch_entity_group in insertion order and the key counter
add_fetch_entity(st, path, parent_type, field, meta_field, service, keys) ==
    LET fetch_entity_key == [service |-> service, path |-> path, ty |-> parent_type]
        found == {i \in DOMAIN st.group : st.group[i].key = fetch_entity_key}
    IN  IF found # {}
        THEN LET i == CHOOSE i \in found : TRUE
             IN  [st EXCEPT !.group[i].fields = Append(@, field)]
        ELSE LET taken == take_key_prefix(st)
             IN  [taken.st EXCEPT
                    !.out = Append(@, RequiredRef(taken.prefix, keys, meta_field.requires)),
                    !.group = Append(@, [key |-> fetch_entity_key,
                                         parent_type |-> parent_type,
                                         prefix |-> taken.prefix,
                                         fields |-> <<field>>])]

\* the path with the possible type of its last segment set
with_possible_type(path, ty) == [path EXCEPT ![Len(path)].possible_type = ty]

\* the selection_ref_set of a type in the IndexMap of build_fields
group_entry(groups, ty) ==
    IF \E i \in DOMAIN groups : groups[i].ty = ty
    THEN [groups |-> groups, at |-> CHOOSE i \in DOMAIN groups : groups[i].ty = ty]
    ELSE [groups |-> Append(groups, [ty |-> ty, out |-> <<>>]), at |-> Len(groups) + 1]

\* line 589: the field with its sub-selection is pushed to the set that was
\* being written before the sub-selection was built
push_field_ref(st, field, sub) ==
    [sub EXCEPT !.out = Append(st.out, FieldRef(field, sub.out))]

\* build_fields writes to the entry of the type and leaves st.out alone
store_entry(st, e, r) ==
    [r EXCEPT !.groups = [e.groups EXCEPT ![e.at].out = r.out], !.out = st.out]

\* a nested build_fields has returned: the caller's loop goes on
resume(st) == [st EXCEPT !.returned = FALSE]

\* lines 816-824: the sets that are not empty become inline fragments
push_inline_fragments(st, built) ==
    LET filled == SelectSeq(built.groups, LAMBDA g : g.out # <<>>)
    IN  [built EXCEPT
           !.groups = st.groups,
           !.out = st.out \o [i \in DOMAIN filled |->
                                InlineFragmentRef(filled[i].ty, filled[i].out)]]

RECURSIVE build_field(_, _, _, _, _)
RECURSIVE build_selection_set(_, _, _, _, _)
RECURSIVE build_fields(_, _, _, _, _)
RECURSIVE build_abstract_selection_set(_, _, _, _, _)

\* build_field, lines 502-596
build_field(st, path, current_service, parent_type, field) ==
    IF field.name = "__typename"
    THEN [st EXCEPT !.out = Append(@, IntrospectionTypename)]
    ELSE IF field.name \notin DOMAIN schema_types[parent_type].fields THEN st
    ELSE
    LET parent == schema_types[parent_type]
        field_definition == parent.fields[field.name]
        service == IF field_definition.service # NoService THEN field_definition.service
                   ELSE IF parent.owner # NoService THEN parent.owner
                   ELSE current_service
        keys == IF service \in DOMAIN parent.keys THEN <<parent.keys[service]>>
                ELSE IF parent.owner \in DOMAIN parent.keys THEN <<parent.keys[parent.owner]>>
                ELSE <<>>
        inner == Append(path, PathSegment(response_key(field), field_definition.is_list, NoType))
        empty == [st EXCEPT !.out = <<>>]
    IN  IF field_definition.ty \notin DOMAIN schema_types THEN st
        ELSE IF service # current_service /\ keys = <<>> THEN st
        ELSE IF service # current_service /\ ~field_in_keys(st.fragments, field, keys[1])
        THEN add_fetch_entity(st, path, parent_type, field, field_definition, service, keys[1])
        ELSE push_field_ref(st, field,
                 IF schema_types[field_definition.ty].kind \in {"Interface", "Union"}
                 THEN build_abstract_selection_set(empty, inner, current_service,
                                                   field_definition.ty, field.selection_set)
                 ELSE build_selection_set(empty, inner, current_service,
                                          field_definition.ty, field.selection_set))

\* build_selection_set, lines 640-688
build_selection_set(st, path, current_service, parent_type, selection_set) ==
    IF selection_set = <<>> THEN st
    ELSE
    LET selection == Head(selection_set)
        next ==
          CASE selection.sel = "Field" ->
                 build_field(st, path, current_service, parent_type, selection)
            [] selection.sel = "FragmentSpread" ->
                 IF selection.fragment_name \in DOMAIN st.fragments
                 THEN build_selection_set(st, path, current_service, parent_type,
                                          st.fragments[selection.fragment_name].selection_set)
                 ELSE st
            [] OTHER ->
                 build_selection_set(st, path, current_service, parent_type,
                                     selection.selection_set)
    IN  build_selection_set(next, path, current_service, parent_type, Tail(selection_set))

\* build_fields, lines 699-797; st.groups is selection_ref_set_group, and
\* st.returned tells that this invocation took the `return` of line 743
build_fields(st, path, current_service, selection_set, possible_type) ==
    IF selection_set = <<>> \/ st.returned THEN st
    ELSE
    LET selection == Head(selection_set)
        next ==
          CASE selection.sel = "Field" ->
                 LET e == group_entry(st.groups, possible_type)
                 IN  store_entry(st, e,
                                 build_field([st EXCEPT !.out = e.groups[e.at].out], path,
                                             current_service, possible_type, selection))
            [] selection.sel = "FragmentSpread" ->
                 IF selection.fragment_name \notin DOMAIN st.fragments THEN st
                 ELSE LET fragment == st.fragments[selection.fragment_name]
                          known == fragment.type_condition \in DOMAIN schema_types
                      IN  IF fragment.type_condition # possible_type /\ ~known
                          THEN [st EXCEPT !.returned = TRUE]
                          ELSE IF fragment.type_condition = possible_type
                                  \/ schema_types[fragment.type_condition].kind
                                       \in {"Interface", "Union"}
                          THEN resume(build_fields(st, path, current_service,
                                                   fragment.selection_set, possible_type))
                          ELSE st
            [] OTHER ->
                 IF selection.type_condition = possible_type
                    \/ selection.type_condition = NoType
                 THEN resume(build_fields(st, path, current_service,
                                          selection.selection_set, possible_type))
                 ELSE st
    IN  build_fields(next, path, current_service, Tail(selection_set), possible_type)

\* the loop of lines 799-813 over parent_type.possible_types
RECURSIVE build_possible_types(_, _, _, _, _)
build_possible_types(st, path, current_service, selection_set, possible_types) ==
    IF possible_types = <<>> THEN st
    ELSE LET ty == Head(possible_types)
             built == IF ty \in DOMAIN schema_types
                      THEN resume(build_fields(st, with_possible_type(path, ty),
                                               current_service, selection_set, ty))
                      ELSE st
         IN  build_possible_types(built, path, current_service, selection_set,
                                  Tail(possible_types))

\* build_abstract_selection_set, lines 690-825
build_abstract_selection_set(st, path, current_service, parent_type, selection_set) ==
    push_inline_fragments(
        st, build_possible_types([st EXCEPT !.groups = <<>>], path, current_service,
                                 selection_set, schema_types[parent_type].possible_types))

\* Value::into_const_with of convert_arguments: a variable becomes its value
RECURSIVE into_const(_, _)
into_const(value, variables) ==
    CASE value.v = "variable" -> variables[value.name]
      [] value.v = "list" ->
           ListValue([i \in DOMAIN value.items |-> into_const(value.items[i], variables)])
      [] OTHER -> value

\* convert_arguments, lines 461-481
convert_arguments(arguments, variables) ==
    [i \in DOMAIN arguments |->
       Argument(arguments[i].name, into_const(arguments[i].value, variables))]

IntrospectionField(name, alias, arguments, directives, selection_set) ==
    [name |-> name, alias |-> alias, arguments |-> arguments, directives |-> directives,
     selection_set |-> selection_set]

\* build_introspection_field with its build_selection_set, lines 423-500
RECURSIVE build_introspection_selection_set(_, _, _)
build_introspection_field(fragments, variables, field) ==
    IntrospectionField(
        field.name, field.alias, convert_arguments(field.arguments, variables),
        [i \in DOMAIN field.directives |->
           Directive(field.directives[i].name,
                     convert_arguments(field.directives[i].arguments, variables))],
        build_introspection_selection_set(fragments, variables, field.selection_set))

build_introspection_selection_set(fragments, variables, selection_set) ==
    IF selection_set = <<>> THEN <<>>
    ELSE LET selection == Head(selection_set)
             first ==
               CASE selection.sel = "Field" ->
                      <<build_introspection_field(fragments, variables, selection)>>
                 [] selection.sel = "FragmentSpread" ->
                      IF selection.fragment_name \in DOMAIN fragments
                      THEN build_introspection_selection_set(
                               fragments, variables,
                               fragments[selection.fragment_name].selection_set)
                      ELSE <<>>
                 [] OTHER ->
                      build_introspection_selection_set(fragments, variables,
                                                        selection.selection_set)
         IN  first \o build_introspection_selection_set(fragments, variables,
                                                        Tail(selection_set))

\* the "if" argument of a directive as a Boolean: anything else counts as false
condition_input(directive) ==
    \E i \in DOMAIN directive.arguments :
       directive.arguments[i].name = "if" /\ directive.arguments[i].value = Const("true")

\* is_skip, resolver.rs lines 36-52: the first skip or include directive decides
RECURSIVE is_skip(_)
is_skip(directives) ==
    IF directives = <<>> THEN FALSE
    ELSE IF Head(directives).name \notin {"skip", "include"} THEN is_skip(Tail(directives))
    ELSE (Head(directives).name = "include") # condition_input(Head(directives))

\* the key of an IntrospectionField in the resolved object
introspection_key(field) == IF field.alias # "" THEN field.alias ELSE field.name

\* resolve_obj, resolver.rs lines 17-34: the BTreeMap of the fields that are not
\* skipped; a later field of the same key replaces an earlier one.  The value
\* of a field is the object resolved from its own selection set.
RECURSIVE resolve_obj(_)
resolve_obj(selection_set) ==
    LET kept == SelectSeq(selection_set, LAMBDA field : ~is_skip(field.directives))
        keys == {introspection_key(kept[i]) : i \in DOMAIN kept}
        last(key) == CHOOSE i \in DOMAIN kept :
                        /\ introspection_key(kept[i]) = key
                        /\ \A j \in DOMAIN kept : introspection_key(kept[j]) = key => j <= i
    IN  [key \in keys |-> resolve_obj(kept[last(key)].selection_set)]

\* the first occurrence of every element, in order
RECURSIVE first_occurrences(_)
first_occurrences(seq) ==
    IF seq = <<>> THEN <<>>
    ELSE LET init == first_occurrences(SubSeq(seq, 1, Len(seq) - 1))
             x == seq[Len(seq)]
         IN  IF \E i \in DOMAIN init : init[i] = x THEN init ELSE Append(init, x)

\* the variable names of an argument list
arguments_variables(arguments) ==
    Concat([i \in DOMAIN arguments |-> Value_referenced_variables(arguments[i].value)])

\* referenced_variables_rec, lines 912-973: the names met, in order
RECURSIVE referenced_variables_rec(_)
referenced_variables_rec(selection_set) ==
    Concat([i \in DOMAIN selection_set |->
       LET selection == selection_set[i]
       IN  CASE selection.ref = "FieldRef" ->
                  arguments_variables(selection.field.arguments)
                  \o Concat([d \in DOMAIN selection.field.directives |->
                               arguments_variables(selection.field.directives[d].arguments)])
                  \o referenced_variables_rec(selection.selection_set)
             [] selection.ref = "InlineFragment" ->
                  referenced_variables_rec(selection.selection_set)
             [] OTHER -> <<>>])

\* a referenced_variables that keeps every supplied variable
referenced_variables_all(selection_set, variables) ==
    [variables |-> variables,
     variable_definitions |-> first_occurrences(referenced_variables_rec(selection_set))]

\* referenced_variables, lines 907-1000: a value only for a supplied variable,
\* a definition for every referenced one
referenced_variables(selection_set, variables) ==
    LET names == first_occurrences(referenced_variables_rec(selection_set))
        supplied == {names[i] : i \in DOMAIN names} \cap DOMAIN variables
    IN  [variables |-> [name \in supplied |-> variables[name]],
         variable_definitions |-> names]

\* FetchQuery
FetchQuery(entity_type, variable_definitions, selection_set) ==
    [entity_type |-> entity_type, variable_definitions |-> variable_definitions,
     selection_set |-> selection_set]

\* FetchNode and FlattenNode of plan.rs
PlanFetch(service, variables, query) ==
    [kind |-> "Fetch", service |-> service, variables |-> variables, query |-> query]

PlanFlatten(path, prefix, service, variables, query) ==
    [kind |-> "Flatten", path |-> path, prefix |-> prefix, service |-> service,
     variables |-> variables, query |-> query]

\* the new Context of create_context: key_id starts at 1
NewContext(fragments) ==
    [fragments |-> fragments, out |-> <<>>, groups |-> <<>>, returned |-> FALSE,
     group |-> <<>>, key_id |-> 1, root_group |-> <<>>, inspection |-> <<>>,
     nodes |-> <<>>]

\* QueryRootGroup::selection_set_mut: the entry of the service, made if absent
root_entry(root_group, service) ==
    IF \E i \in DOMAIN root_group : root_group[i].service = service
    THEN [root_group |-> root_group,
          at |-> CHOOSE i \in DOMAIN root_group : root_group[i].service = service]
    ELSE [root_group |-> Append(root_group, [service |-> service, out |-> <<>>]),
          at |-> Len(root_group) + 1]

\* the set of the service in the root group takes what build_field wrote
store_root_entry(e, r) ==
    [r EXCEPT !.root_group = [e.root_group EXCEPT ![e.at].out = r.out], !.out = <<>>]

\* build_root_selection_set_rec for a query, lines 147-208
RECURSIVE root_selection_set_rec(_, _, _, _)
root_selection_set_rec(ctx, variables, parent_type, selection_set) ==
    IF selection_set = <<>> THEN ctx
    ELSE
    LET selection == Head(selection_set)
        next ==
          CASE selection.sel = "Field" ->
                 IF selection.name \notin DOMAIN schema_types[parent_type].fields THEN ctx
                 ELSE IF is_introspection_field(selection.name)
                 THEN [ctx EXCEPT !.inspection =
                         Append(@, build_introspection_field(ctx.fragments, variables,
                                                             selection))]
                 ELSE LET service == schema_types[parent_type].fields[selection.name].service
                          e == root_entry(ctx.root_group, service)
                      IN  IF service = NoService THEN ctx
                          ELSE store_root_entry(
                                 e, build_field([ctx EXCEPT !.out = e.root_group[e.at].out],
                                                <<>>, service, parent_type, selection))
            [] selection.sel = "FragmentSpread" ->
                 IF selection.fragment_name \in DOMAIN ctx.fragments
                 THEN root_selection_set_rec(ctx, variables, parent_type,
                                             ctx.fragments[selection.fragment_name].selection_set)
                 ELSE ctx
            [] OTHER ->
                 root_selection_set_rec(ctx, variables, parent_type, selection.selection_set)
    IN  root_selection_set_rec(next, variables, parent_type, Tail(selection_set))

\* ParallelNode::flatten: a group of one node is that node
flatten_group(nodes) ==
    IF Len(nodes) = 1 THEN nodes[1] ELSE [kind |-> "Parallel", nodes |-> nodes]

\* lines 221-250: the introspection node and the fetch nodes of the root group
root_nodes(ctx, variables) ==
    LET fetch_nodes ==
          [i \in DOMAIN ctx.root_group |->
             LET refs == referenced_variables(ctx.root_group[i].out, variables)
             IN  PlanFetch(ctx.root_group[i].service, refs.variables,
                           FetchQuery(NoType, refs.variable_definitions,
                                      ctx.root_group[i].out))]
    IN  (IF ctx.inspection # <<>>
         THEN <<[kind |-> "Introspection", selection_set |-> ctx.inspection]>>
         ELSE <<>>)
        \o <<flatten_group(fetch_nodes)>>

\* the body of the loop of lines 269-278: the fields of one entity
RECURSIVE build_entity_fields(_, _, _, _, _)
build_entity_fields(st, path, service, parent_type, fields) ==
    IF fields = <<>> THEN st
    ELSE build_entity_fields(build_field(st, path, service, parent_type, Head(fields)),
                             path, service, parent_type, Tail(fields))

\* lines 280-293: the flatten node of an entity whose fields are built
push_flatten_node(built, variables, entity) ==
    LET refs == referenced_variables(built.out, variables)
    IN  [built EXCEPT
           !.nodes = Append(@, PlanFlatten(entity.key.path, entity.prefix, entity.key.service,
                                           refs.variables,
                                           FetchQuery(entity.parent_type,
                                                      refs.variable_definitions, built.out))),
           !.out = <<>>]

\* lines 256-294: one pass over fetch_entity_group; st.group collects
\* next_group and st.nodes the flatten nodes
RECURSIVE build_flatten_nodes(_, _, _)
build_flatten_nodes(st, variables, fetch_entity_group) ==
    IF fetch_entity_group = <<>> THEN st
    ELSE LET entity == Head(fetch_entity_group)
         IN  build_flatten_nodes(
                 push_flatten_node(
                     build_entity_fields([st EXCEPT !.out = <<>>], entity.key.path,
                                         entity.key.service, entity.parent_type,
                                         entity.fields),
                     variables, entity),
                 variables, Tail(fetch_entity_group))

\* one turn of the loop of lines 252-303 on the builder's state: the flatten
\* nodes are a new layer, next_group is the group of the next turn
entity_layer(b) ==
    build_flatten_nodes([NewContext(b.fragments) EXCEPT !.key_id = b.key_id],
                        b.variables, b.fetch_entity_group)

\* a loop that forgets line 302 and keeps its group
next_layer_same_group(b, built) ==
    [b EXCEPT !.nodes = Append(@, flatten_group(built.nodes)),
              !.key_id = built.key_id,
              !.layers = @ + 1]

next_layer(b, built) ==
    [b EXCEPT !.nodes = Append(@, flatten_group(built.nodes)),
              !.fetch_entity_group = built.group,
              !.key_id = built.key_id,
              !.layers = @ + 1]

\* the loop of lines 252-303 run to its end
RECURSIVE build_entity_layers(_)
build_entity_layers(b) ==
    IF b.fetch_entity_group = <<>> THEN b
    ELSE build_entity_layers(next_layer(b, entity_layer(b)))

\* SequenceNode::flatten of line 305
flatten_sequence(nodes) ==
    IF Len(nodes) = 1 THEN nodes[1] ELSE [kind |-> "Sequence", nodes |-> nodes]

\* lines 210-250: the builder's state after the root pass
root_layer(document, variables, ctx) ==
    [fragments |-> document.fragments, variables |-> variables,
     nodes |-> root_nodes(ctx, variables),
     fetch_entity_group |-> ctx.group, key_id |-> ctx.key_id, layers |-> 0]

root_pass_of(document, variables) ==
    root_layer(document, variables,
               root_selection_set_rec(NewContext(document.fragments), variables, "Query",
                                      document.selection_set))

\* build_root_selection_set for a query, lines 139-306, as one function
plan_query(document, variables) ==
    flatten_sequence(build_entity_layers(root_pass_of(document, variables)).nodes)

\* The query text is a list of tokens: names, punctuation, constants,
\* directive names, variable uses ($name) and variable declarations.
Tok(t, s) == [t |-> t, s |-> s]

\* Display of a Value
RECURSIVE stringify_value(_)
stringify_value(value) ==
    CASE value.v = "variable" -> <<Tok("var", value.name)>>
      [] value.v = "list" ->
           <<Tok("punct", "[")>>
           \o Concat([i \in DOMAIN value.items |-> stringify_value(value.items[i])])
           \o <<Tok("punct", "]")>>
      [] OTHER -> <<Tok("const", value.c)>>

\* stringify_argument, types.rs lines 93-105
stringify_argument(arguments) ==
    <<Tok("punct", "(")>>
    \o Concat([i \in DOMAIN arguments |->
                 <<Tok("name", arguments[i].name), Tok("punct", ":")>>
                 \o stringify_value(arguments[i].value)])
    \o <<Tok("punct", ")")>>

\* stringify_directives, types.rs lines 107-123
stringify_directives(directives) ==
    Concat([i \in DOMAIN directives |->
              <<Tok("directive", directives[i].name)>>
              \o (IF directives[i].arguments # <<>>
                  THEN stringify_argument(directives[i].arguments) ELSE <<>>)])

\* stringify_key_fields_no_prefix, types.rs lines 128-141: nothing for a key
\* without children; else the braces and, inside `if idx > 0`, the blank,
\* the name and the children of every child but the first
RECURSIVE stringify_key_fields_no_prefix(_)
stringify_key_fields_no_prefix(fields) ==
    IF fields = <<>> THEN <<>>
    ELSE <<Tok("punct", "{")>>
         \o Concat([idx \in DOMAIN fields |->
                      IF idx > 1
                      THEN <<Tok("name", fields[idx].name)>>
                           \o stringify_key_fields_no_prefix(fields[idx].children)
                      ELSE <<>>])
         \o <<Tok("punct", "}")>>

\* the alias "__key{prefix}_{field_name}"
key_alias(prefix, field_name) == "__key" \o ToString(prefix) \o "_" \o field_name

\* stringify_key_fields, types.rs lines 127-148
stringify_key_fields(prefix, fields) ==
    Concat([i \in DOMAIN fields |->
              <<Tok("key", key_alias(prefix, fields[i].name)), Tok("punct", ":"),
                Tok("name", fields[i].name)>>
              \o stringify_key_fields_no_prefix(fields[i].children)])

\* stringify_selection_ref_set_rec, types.rs lines 150-201
RECURSIVE stringify_selection_ref_set_rec(_)
stringify_selection_ref_set_rec(selection_set) ==
    <<Tok("punct", "{")>>
    \o Concat([i \in DOMAIN selection_set |->
         LET selection == selection_set[i]
         IN  CASE selection.ref = "FieldRef" ->
                    (IF selection.field.alias # ""
                     THEN <<Tok("name", selection.field.alias), Tok("punct", ":")>>
                     ELSE <<>>)
                    \o <<Tok("name", selection.field.name)>>
                    \o (IF selection.field.arguments # <<>>
                        THEN stringify_argument(selection.field.arguments) ELSE <<>>)
                    \o stringify_directives(selection.field.directives)
                    \o (IF selection.selection_set # <<>>
                        THEN stringify_selection_ref_set_rec(selection.selection_set)
                        ELSE <<>>)
               [] selection.ref = "IntrospectionTypename" -> <<Tok("name", "__typename")>>
               [] selection.ref = "RequiredRef" ->
                    <<Tok("key", key_alias(selection.prefix, "__typename")),
                      Tok("punct", ":"), Tok("name", "__typename")>>
                    \o stringify_key_fields(selection.prefix, selection.fields)
                    \o (IF selection.requires.is_some
                        THEN stringify_key_fields(selection.prefix, selection.requires.value)
                        ELSE <<>>)
               [] OTHER ->
                    <<Tok("punct", "... on"), Tok("name", selection.type_condition)>>
                    \o stringify_selection_ref_set_rec(selection.selection_set)])
    \o <<Tok("punct", "}")>>

\* Display of VariableDefinitionsRef
stringify_variable_definitions(variable_definitions) ==
    [i \in DOMAIN variable_definitions |-> Tok("def", variable_definitions[i])]

\* Display of FetchQuery, types.rs lines 58-83
FetchQuery_to_string(query) ==
    IF query.entity_type # NoType
    THEN <<Tok("name", "query"), Tok("punct", "("), Tok("def", "representations")>>
         \o stringify_variable_definitions(query.variable_definitions)
         \o <<Tok("punct", ")"), Tok("punct", "{"), Tok("name", "_entities"),
              Tok("punct", "("), Tok("name", "representations"), Tok("punct", ":"),
              Tok("var", "representations"), Tok("punct", ")"), Tok("punct", "{"),
              Tok("punct", "... on"), Tok("name", query.entity_type)>>
         \o stringify_selection_ref_set_rec(query.selection_set)
         \o <<Tok("punct", "}"), Tok("punct", "}")>>
    ELSE <<Tok("name", "query")>>
         \o (IF query.variable_definitions # <<>>
             THEN <<Tok("punct", "(")>>
                  \o stringify_variable_definitions(query.variable_definitions)
                  \o <<Tok("punct", ")")>>
             ELSE <<>>)
         \o stringify_selection_ref_set_rec(query.selection_set)

\* the representations an executor hands to FlattenNode::to_request
Representations == ListValue(<<Const("entity")>>)

\* FetchNode::to_request and FlattenNode::to_request, plan.rs lines 146-169:
\* the variables of the node extend the representations
to_request(node) ==
    [query |-> FetchQuery_to_string(node.query),
     variables |->
       IF node.kind = "Flatten"
       THEN [name \in {"representations"} \cup DOMAIN node.variables |->
               IF name \in DOMAIN node.variables THEN node.variables[name]
               ELSE Representations]
       ELSE node.variables]

\* the Fetch and Flatten nodes of the layers of a plan, in order
fetch_nodes_of(nodes) ==
    Concat([i \in DOMAIN nodes |->
              CASE nodes[i].kind = "Parallel" -> nodes[i].nodes
                [] nodes[i].kind = "Introspection" -> <<>>
                [] OTHER -> <<nodes[i]>>])

(***************************************************************************)
(* Properties                                                              *)
(***************************************************************************)
Planned == plan # NoPlan

KindLeaves(kind) == {l \in DOMAIN status : NodeAt(plan, l).kind = kind}

\* the leaves of a node in declaration order
RECURSIVE LeafSeq(_)
LeafSeq(node) ==
    IF IsComposite(node)
    THEN Concat([i \in 1..Len(node.nodes) |->
                   [k \in 1..Len(LeafSeq(node.nodes[i])) |-> <<i>> \o LeafSeq(node.nodes[i])[k]]])
    ELSE << <<>> >>

\* the Fetch nodes of the plan in declaration order
FetchSeq == SelectSeq([i \in 1..Len(LeafSeq(plan)) |-> NodeAt(plan, LeafSeq(plan)[i])],
                      LAMBDA node : node.kind = "Fetch")

\* the root fields of the request that a service owns, in client order
RECURSIVE OwnedFields(_, _)
OwnedFields(req, selection_set) ==
    IF selection_set = <<>> THEN <<>>
    ELSE LET selection == Head(selection_set)
             here == CASE selection.sel = "Field" ->
                            IF /\ selection.name \in DOMAIN root_type_fields(req.op)
                               /\ root_type_fields(req.op)[selection.name] # NoService
                            THEN <<selection.name>> ELSE <<>>
                       [] selection.sel = "InlineFragment" ->
                            OwnedFields(req, selection.selection_set)
                       [] OTHER ->
                            IF selection.fragment_name \in DOMAIN req.fragments
                            THEN OwnedFields(req, req.fragments[selection.fragment_name])
                            ELSE <<>>
         IN  here \o OwnedFields(req, Tail(selection_set))

\* C1: in a mutation the root Fetch sub-requests go out one at a time in
\* client order: a Fetch is not sent before every Fetch declared before it is
\* done (its response merged or its error recorded), and the Fetch nodes
\* carry the client's root fields in the client's order.
C1_MutationFetchesInOrder ==
    (Planned /\ request.op = "mutation") =>
        /\ \A a, b \in KindLeaves("Fetch") :
              (LexLess(a, b) /\ status[b] # "idle") => status[a] = "done"
        /\ LET groups == FetchSeq
           IN  Concat([i \in 1..Len(groups) |-> groups[i].selection_set])
                 = OwnedFields(request, request.selection_set)

\* a third group is out, after two groups of which the first is of its service
C1_Witness ==
    /\ Planned /\ request.op = "mutation"
    /\ \E a, b, c \in KindLeaves("Fetch") :
          /\ LexLess(a, b) /\ LexLess(b, c)
          /\ NodeAt(plan, a).service = NodeAt(plan, c).service
          /\ NodeAt(plan, a).service # NodeAt(plan, b).service
          /\ status[a] = "done" /\ status[b] = "done" /\ status[c] = "sent"

\* C2: the root groups of a mutation are the maximal runs of consecutive
\* same-service fields: the groups, in order, hold the owned root fields in
\* client order, each once; a group holds fields of its service only and is
\* not empty; two neighbouring groups are of different services.
C2_GroupsAreMaximalRuns ==
    (Planned /\ request.op = "mutation") =>
        LET groups == FetchSeq
        IN  /\ Concat([i \in 1..Len(groups) |-> groups[i].selection_set])
                 = OwnedFields(request, request.selection_set)
            /\ \A i \in 1..Len(groups) :
                  /\ groups[i].selection_set # <<>>
                  /\ \A k \in 1..Len(groups[i].selection_set) :
                        mutation_fields[groups[i].selection_set[k]] = groups[i].service
            /\ \A i \in 1..(Len(groups) - 1) : groups[i].service # groups[i + 1].service

\* three groups, the first and the third of one service, one of them fused
C2_Witness ==
    /\ Planned /\ request.op = "mutation"
    /\ LET groups == FetchSeq
       IN  /\ Len(groups) = 3
           /\ groups[1].service = groups[3].service
           /\ Len(groups[1].selection_set) = 2

\* the groups a root field registers, and all the groups that can be registered
RootEntities ==
    UNION {{field_entities(name)[i] : i \in DOMAIN field_entities(name)} :
             name \in DOMAIN query_fields \cup DOMAIN mutation_fields}

RECURSIVE EntityClosure(_)
EntityClosure(S) ==
    LET next == S \cup UNION {{entity_entities(e)[i] : i \in DOMAIN entity_entities(e)} : e \in S}
    IN  IF next = S THEN S ELSE EntityClosure(next)

\* the layer of a group: 1 when a root field registers it, one more than the
\* layer of the group whose Flatten registers it otherwise
RECURSIVE Layer(_)
Layer(entity) ==
    IF entity \in RootEntities THEN 1
    ELSE 1 + Layer(CHOOSE e \in EntityClosure(RootEntities) :
                      \E i \in DOMAIN entity_entities(e) : entity_entities(e)[i] = entity)

LayerOf(l) ==
    LET node == NodeAt(plan, l) IN Layer(FetchEntity(node.service, node.path, node.prefix))

\* C3: a Flatten of layer n+1 is not started before every Flatten of the
\* layers up to n, and every root Fetch, is done.
C3_LayersInOrder ==
    (Planned /\ request.op \in {"query", "mutation"}) =>
        \A b \in KindLeaves("Flatten") :
            status[b] # "idle" =>
                /\ \A a \in KindLeaves("Fetch") : status[a] = "done"
                /\ \A a \in KindLeaves("Flatten") :
                      LayerOf(a) < LayerOf(b) => status[a] = "done"

\* a Flatten of the second layer has its sub-request out
C3_Witness ==
    /\ Planned /\ request.op = "query"
    /\ \E b \in KindLeaves("Flatten") : LayerOf(b) = 2 /\ status[b] = "sent" /\ sent[b] # <<>>

\* the run of one leaf to its end, with the answer recorded for it
RunLeaf(r, l) ==
    LET node == NodeAt(plan, l)
    IN  CASE node.kind = "Introspection" ->
               [r EXCEPT !.data = merge_data(@, introspection_value(node.selection_set))]
          [] node.kind = "Fetch" -> fetch_merge(r, fetch_result(node, outcome[l]))
          [] OTHER ->
               LET walk == get_representations(r.data, node.path, node.prefix)
                   r1   == [r EXCEPT !.data = walk.value]
               IN  IF nothing_to_send(walk.reps) THEN r1
                   ELSE flatten_merge(r1, node, rep_flags(walk.reps),
                                      flatten_result(node, rep_values(walk.reps), outcome[l]))

RECURSIVE RunInOrder(_, _)
RunInOrder(r, leaves) ==
    IF leaves = <<>> THEN r ELSE RunInOrder(RunLeaf(r, Head(leaves)), Tail(leaves))

\* C4: the data of a query's response is the data of the run that completes
\* the nodes one after the other in declaration order with the same answers,
\* whatever the order in which the nodes of a Parallel completed.
C4_DataIndependentOfOrder ==
    (returned /\ request.op = "query") =>
        resp.data = RunInOrder([data |-> Null, errors |-> <<>>], LeafSeq(plan)).data

\* a query returned whose nodes completed out of declaration order, all answered
C4_Witness ==
    /\ returned /\ request.op = "query" /\ reordered
    /\ \A l \in DOMAIN outcome : outcome[l] = "ok"
    /\ Cardinality(KindLeaves("Flatten")) >= 2

\* a sub-request is awaited, or a node whose turn has come has not run yet, or
\* every node is done and the response can be returned
CanProceed ==
    \/ \E l \in DOMAIN status : status[l] = "sent" \/ (status[l] = "idle" /\ NodeStarted(l))
    \/ NodeDone(<<>>)

\* C5: a transport failure adds one entry to errors and aborts nothing: the
\* errors hold one transport error per failed sub-request, the plan returns
\* only with every node done, and until it returns the execution can proceed.
C5_FailureDoesNotAbort ==
    /\ Cardinality({i \in DOMAIN resp.errors : resp.errors[i] = TransportError})
         = Cardinality({l \in DOMAIN outcome : outcome[l] = "failed"})
    /\ returned => \A l \in DOMAIN status : status[l] = "done"
    /\ Running => CanProceed

\* returned after a failed sub-request, a node declared after it answered
C5_Witness ==
    /\ returned
    /\ \E l, m \in DOMAIN outcome :
          LexLess(l, m) /\ outcome[l] = "failed" /\ outcome[m] = "ok"

\* C6: the answer of a sub-request that carries errors leaves the data as it
\* is and appends its errors, for a Fetch and for a Flatten.
C6_ErrorsDropData ==
    [][\A n \in DOMAIN status :
          (status[n] = "sent" /\ n \in DOMAIN outcome' /\ outcome'[n] = "errors") =>
              /\ resp'.data = resp.data
              /\ Len(resp'.errors) = Len(resp.errors) + 1
              /\ SubSeq(resp'.errors, 1, Len(resp.errors)) = resp.errors
              /\ resp'.errors[Len(resp'.errors)].message = "upstream"]_vars

\* a Fetch and a Flatten were both answered with errors
C6_Witness ==
    /\ \E l \in KindLeaves("Fetch") : outcome[l] = "errors"
    /\ \E l \in KindLeaves("Flatten") : outcome[l] = "errors"

\* the steps a response path stands for in an error path
ResponsePathSteps(path) ==
    Concat([i \in 1..Len(path) |->
              IF path[i].is_list THEN <<Str(path[i].name), Num(0)>> ELSE <<Str(path[i].name)>>])

\* C7: an error of an entity sub-request whose path starts with `_entities`
\* is appended with the path of the Flatten node (a 0 after each list
\* segment) followed by the segments after `_entities`, and with nothing
\* else of it changed.
C7_EntitiesPathReplaced ==
    [][\A n \in DOMAIN status :
          (/\ status[n] = "sent" /\ NodeAt(plan, n).kind = "Flatten"
           /\ n \in DOMAIN outcome' /\ outcome'[n] = "errors") =>
              /\ Len(resp'.errors) = Len(resp.errors) + Len(request.entity_errors)
              /\ \A i \in 1..Len(request.entity_errors) :
                    LET err == request.entity_errors[i]
                    IN  is_entities_path(err.path) =>
                            resp'.errors[Len(resp.errors) + i]
                              = [err EXCEPT !.path = ResponsePathSteps(NodeAt(plan, n).path)
                                                       \o Tail(err.path)]]_vars

\* the values in the objects of a value, at any depth
RECURSIVE Objects(_)
Objects(value) ==
    CASE value.t = "obj" ->
           {value} \cup UNION {Objects(value.f[k]) : k \in DOMAIN value.f}
      [] value.t = "list" -> UNION {Objects(value.l[i]) : i \in DOMAIN value.l}
      [] OTHER -> {}

\* the slots of a value: what the path leads to, in the order of the walk
RECURSIVE Slots(_, _)
Slots(value, path) ==
    IF path = <<>> THEN <<value>>
    ELSE IF value.t # "obj" \/ N(Head(path).name) \notin DOMAIN value.f THEN <<>>
    ELSE LET v == value.f[N(Head(path).name)]
         IN  IF ~Head(path).is_list THEN Slots(v, Tail(path))
             ELSE IF v.t = "list"
             THEN Concat([i \in 1..Len(v.l) |-> Slots(v.l[i], Tail(path))])
             ELSE <<>>

\* the slot carries the keys of the prefix and the type of the filter
SlotMatches(value, prefix, possible_type) ==
    /\ value.t = "obj"
    /\ K(prefix, "__typename") \in DOMAIN value.f
    /\ value.f[K(prefix, "__typename")] = Str(possible_type)

\* what a slot is to hold once its entity is merged: the slot that gives a
\* representation loses the keys of the prefix and gains the answer to its
\* own representation (the service answers with the id it was sent, under
\* `r`); any other slot is as it was
MergedSlot(value, prefix, possible_type) ==
    IF value.t = "obj" /\ (possible_type = NoType \/ SlotMatches(value, prefix, possible_type))
    THEN LET kept == {k \in DOMAIN value.f : k.p # prefix}
         IN  Obj([k \in kept \cup {N("r")} |->
                    IF k = N("r")
                    THEN IF K(prefix, "id") \in DOMAIN value.f
                         THEN value.f[K(prefix, "id")] ELSE Null
                    ELSE value.f[k]])
    ELSE value

\* C8: the i-th value of `_entities` is merged into the slot the i-th
\* representation was taken from: the second walk leaves no flag and no
\* value unconsumed, and once the answer is merged every slot of the event
\* holds the answer to its own representation, or is as it was when it gave
\* none.
C8_ValuesMeetTheirSlots ==
    \A n \in DOMAIN status :
        LET node   == NodeAt(plan, n)
            before == Slots(request.event, node.path)
        IN  node.kind = "Flatten" =>
                /\ status[n] = "sent" =>
                      LET walk == flatten_values(resp.data, node.path,
                                     entities_data(node, sent[n]).f[N("_entities")].l, flags[n])
                      IN  walk.flags = <<>> /\ walk.values = <<>>
                /\ outcome[n] = "ok" =>
                      Slots(resp.data, node.path)
                        = [i \in 1..Len(before) |->
                             MergedSlot(before[i], node.prefix,
                                        node.path[Len(node.path)].possible_type)]

\* C9: under a type filter T on the last segment, the slots whose
\* `__key{prefix}___typename` is T, and no other, give a representation and
\* receive a value; the other slots are left as they were.
C9_TypeFilter ==
    \A n \in DOMAIN status :
        LET node   == NodeAt(plan, n)
            T      == node.path[Len(node.path)].possible_type
            before == Slots(request.event, node.path)
            after  == Slots(resp.data, node.path)
            chosen == SelectSeq(before, LAMBDA v : SlotMatches(v, node.prefix, T))
        IN  (node.kind = "Flatten" /\ T # NoType) =>
                /\ status[n] # "idle" =>
                      \/ status[n] = "done" /\ outcome[n] = "none" /\ chosen = <<>>
                      \/ [i \in 1..Len(sent[n]) |-> rep_field(sent[n][i], "id")]
                           = [i \in 1..Len(chosen) |-> chosen[i].f[K(node.prefix, "id")]]
                /\ outcome[n] = "ok" =>
                      /\ Len(after) = Len(before)
                      /\ \A i \in 1..Len(before) :
                            IF SlotMatches(before[i], node.prefix, T)
                            THEN after[i].t = "obj" /\ N("r") \in DOMAIN after[i].f
                            ELSE after[i] = before[i]

\* C10: a Flatten with no representation to send, every slot skipped or no
\* slot at all, returns without a call of the fetcher: no sub-request is out
\* with an empty list of representations.
C10_NoEmptySubRequest ==
    \A n \in DOMAIN status :
        (NodeAt(plan, n).kind = "Flatten" /\ status[n] = "sent") => sent[n] # <<>>

\* the sub-requests sent to the services so far
SubRequests ==
    {l \in DOMAIN status : NodeAt(plan, l).kind \in {"Fetch", "Flatten"}
                            /\ (status[l] = "sent" \/ outcome[l] # "none")}

\* the step in which SharedRouteTable::query gets rule errors from validation
Rejects ==
    /\ gateway.http = NoReply /\ plan = NoPlan /\ PlanRequest
    /\ ~request.parse_error /\ get(gateway) /\ request.rule_errors # <<>>

Rejected ==
    /\ gateway.http # NoReply /\ plan = NoPlan /\ gateway.http.status = 200

\* C11: when validation reports rule errors the reply holds data null and
\* one error for each rule error, with its message and locations and in the
\* same order; no plan is built, and no sub-request is sent then or later
C11_RuleErrorsShortCircuit ==
    [][/\ Rejects =>
            /\ gateway'.http # NoReply
            /\ gateway'.http.body.data = Null
            /\ Len(gateway'.http.body.errors) = Len(request.rule_errors)
            /\ \A i \in DOMAIN request.rule_errors :
                  /\ gateway'.http.body.errors[i].message = request.rule_errors[i].message
                  /\ gateway'.http.body.errors[i].locations = request.rule_errors[i].locations
            /\ plan' = NoPlan /\ SubRequests' = {}
       /\ Rejected => (plan' = NoPlan /\ SubRequests' = {} /\ gateway'.http = gateway.http)
      ]_vars

C11_Witness == Rejected /\ Len(gateway.http.body.errors) = MaxRuleErrors

\* the step in which SharedRouteTable::query handles the request
Handles == gateway.http = NoReply /\ plan = NoPlan /\ PlanRequest

RepliedNotReady ==
    gateway.http # NoReply /\ gateway.http.status = 400 /\ gateway.http.body = NotReady

\* C12, as claimed: a request handled while no composed schema is stored is
\* answered with data null and the one error "Not ready.", and no
\* sub-request is sent
C12_NotReady_AnyRequest ==
    [][(Handles /\ ~gateway.schema) =>
          (gateway'.http # NoReply /\ gateway'.http.body = NotReady
           /\ plan' = NoPlan /\ SubRequests' = {})]_vars

\* C12, amended: a request whose document parses and that is handled while
\* no composed schema is stored is answered with data null and the one
\* error "Not ready."; no plan is built and no sub-request is sent, then or
\* later
C12_NotReady ==
    [][/\ (Handles /\ ~gateway.schema /\ ~request.parse_error) =>
            (gateway'.http # NoReply /\ gateway'.http.body = NotReady
             /\ plan' = NoPlan /\ SubRequests' = {})
       /\ RepliedNotReady =>
            (plan' = NoPlan /\ SubRequests' = {} /\ gateway'.http = gateway.http)
      ]_vars

\* the request was refused after the route table had been set, the schema of
\* the new table not composed yet
C12_Witness == RepliedNotReady /\ gateway.route_table /\ ~gateway.schema


\* the payload messages the client has been sent for the id, in order
Payloads(id) ==
    SelectSeq(client.received,
              LAMBDA m : m.type \in {"data", "next"} /\ m.id = id)

IsSubscribeFailure(message) ==
    /\ message.payload.data = Null
    /\ Len(message.payload.errors) = 1
    /\ message.payload.errors[1].message = "subscribe failed"

\* C13: when the subscribe to one upstream fails as the subscription starts,
\* the client is sent one response for the id, with data null and a single
\* error, and the stream ends; no upstream event is forwarded for the id,
\* before or after
C13_SubscribeFailureEndsStream ==
    \A id \in WsIds :
       LET payloads == Payloads(id)
       IN  /\ (/\ id \in DOMAIN streams
               /\ streams[id].phase # "subscribing"
               /\ \E s \in DOMAIN streams[id].replies : streams[id].replies[s] = "err")
              => (/\ streams[id].phase = "ended"
                  /\ Len(payloads) = 1 /\ IsSubscribeFailure(payloads[1]))
           /\ (\E i \in DOMAIN payloads : IsSubscribeFailure(payloads[i]))
              => (/\ Len(payloads) = 1
                  /\ id \in DOMAIN streams =>
                       (streams[id].phase = "ended" /\ streams[id].rx = <<>>))
           /\ (id \in DOMAIN streams /\ streams[id].phase \in {"new", "subscribing"})
              => payloads = <<>>

\* a subscription of two services failed at the second, was answered and
\* ended, while the first service had been subscribed and has sent a payload
C13_Witness ==
    \E id \in WsIds :
       /\ id \notin DOMAIN streams
       /\ Len(Payloads(id)) = 1 /\ IsSubscribeFailure(Payloads(id)[1])
       /\ \E i \in DOMAIN upstream["accounts"].log : upstream["accounts"].log[i].id = id
       /\ upstream["accounts"].sent > 0
       /\ upstream["accounts"].inbox = <<>>

\* the message that ends the subscription id under the protocol
stop_message(protocol, id) ==
    [type |-> IF protocol = "graphql-ws" THEN "stop" ELSE "complete", id |-> id]

\* the id was subscribed on the connection the controller still holds to the
\* service
ServedBy(id, service) ==
    /\ upstream[service].connected
    /\ \E i \in DOMAIN upstream[service].log :
          /\ i > upstream[service].opened
          /\ upstream[service].log[i] = subscribe_message(upstream[service].protocol, id)

\* C15: once a subscription is cancelled (the client's stop, a dropped
\* receiver, a failed initial subscribe), every upstream serving the id has
\* been sent the stop message of its protocol, stop{id} or complete{id}
C15_CancelReachesUpstreams ==
    \A id \in DOMAIN actor.cancelled, service \in WsServices :
       (service \in actor.cancelled[id].services /\ ServedBy(id, service)) =>
          \E i \in DOMAIN upstream[service].log :
             upstream[service].log[i] = stop_message(upstream[service].protocol, id)

\* the server has read the client's message that ends the id
StopRead(id) ==
    \E i \in 1..server.read : client.sent[i] = stop_message(server.protocol, id)

\* C16: after the gateway has received the client's stop for an id, stop{id}
\* or complete{id} by protocol, and the controller has handled what it was
\* sent, the id is not registered in the controller any more and its stream
\* holds no payload to forward
C16_ClientStopUnregisters ==
    \A id \in WsIds :
       (/\ StopRead(id) /\ actor.alive /\ actor.commands = <<>>
        /\ id \in DOMAIN streams => (streams[id].phase = "streaming" /\ streams[id].rx = <<>>))
       => id \notin DOMAIN actor.subscribes

\* C17: every payload message sent to the client has the type of the
\* negotiated protocol, `data` under graphql-ws and `next` under
\* graphql-transport-ws, the answer to an operation that does not parse
\* included
C17_PayloadTypeOfProtocol ==
    \A i \in DOMAIN client.received :
       client.received[i].type \in {"data", "next"}
       => client.received[i].type = (IF server.protocol = "graphql-ws" THEN "data" ELSE "next")

\* the step in which the actor handles a payload for a registered id whose
\* receiver is gone
PayloadForDropped(id, service) ==
    /\ actor.alive /\ upstream[service].connected /\ upstream[service].inbox # <<>>
    /\ Head(upstream[service].inbox).type \in {"data", "next"}
    /\ Head(upstream[service].inbox).id = id
    /\ id \in DOMAIN actor.subscribes
    /\ ~(id \in DOMAIN streams /\ streams[id].rx_alive)
    /\ actor_event(service)

\* C18: on a payload for an id whose receiver is dropped the actor removes
\* the id from its table and takes one from the subscribe-count of each of
\* the id's services, dropping the connection of a service whose count
\* reaches zero; every other id keeps its registration, every other service
\* its count and connection
C18_DroppedReceiverStopsId ==
    [][\A id \in WsIds, service \in WsServices :
          PayloadForDropped(id, service) =>
             /\ DOMAIN actor'.subscribes = DOMAIN actor.subscribes \ {id}
             /\ \A other \in DOMAIN actor'.subscribes :
                   actor'.subscribes[other] = actor.subscribes[other]
             /\ \A s \in WsServices :
                   IF s \in actor.subscribes[id]
                   THEN IF upstream[s].subscribe_count = 1
                        THEN ~upstream'[s].connected
                        ELSE /\ upstream'[s].connected
                             /\ upstream'[s].subscribe_count = upstream[s].subscribe_count - 1
                   ELSE /\ upstream'[s].connected = upstream[s].connected
                        /\ upstream'[s].subscribe_count = upstream[s].subscribe_count
      ]_vars

\* an id was stopped for its dropped receiver while another id stayed
\* registered with the same service
C18_Witness ==
    \E id \in DOMAIN actor.cancelled :
       /\ actor.cancelled[id].cause = "dropped"
       /\ \E other \in DOMAIN actor.subscribes :
             other # id /\ "accounts" \in actor.subscribes[other]
       /\ upstream["accounts"].connected

\* the post-event plan run to completion on an accumulator that holds
\* exactly one event, the fetcher answering with outcome o
PostEvent(event, o) ==
    IF plan = NoPlan THEN Response(event.data, event.errors)
    ELSE LET walk == get_representations(event.data, plan.path, plan.prefix)
             walked == [data |-> walk.value, errors |-> event.errors]
             merged == IF nothing_to_send(walk.reps) THEN walked
                       ELSE flatten_merge(walked, plan, rep_flags(walk.reps),
                                          flatten_result(plan, rep_values(walk.reps), o))
         IN  Response(merged.data, merged.errors)

\* C14: the k-th response forwarded to the client is the post-event plan run
\* to completion on the k-th event alone, in arrival order; an event leaves
\* the channel only after the previous one's response was forwarded; and
\* nothing of one event shows in the response of another
C14_EventsRunInIsolation ==
    \A id \in DOMAIN streams :
      "arrived" \in DOMAIN streams[id] =>
        LET s == streams[id]
            out == Payloads(id)
            taken == Len(s.arrived) - Len(s.rx)
        IN  /\ s.rx = SubSeq(s.arrived, taken + 1, Len(s.arrived))
            /\ Len(out) = IF Running THEN taken - 1 ELSE taken
            /\ \A k \in 1..Len(out) :
                 out[k].payload =
                   PostEvent(s.arrived[k],
                             IF plan = NoPlan THEN "none" ELSE s.outcomes[k])

\* two different events went through the post-event plan, the first with
\* errors of its own and entities that were fetched, the second without errors
C14_Witness ==
    /\ plan # NoPlan /\ 1 \in DOMAIN streams
    /\ Len(Payloads(1)) = 2
    /\ streams[1].outcomes[1] = "ok"
    /\ streams[1].arrived[1].errors # <<>>
    /\ streams[1].arrived[2].errors = <<>>
    /\ streams[1].arrived[1].data # streams[1].arrived[2].data
    /\ Payloads(1)[1].payload # Response(streams[1].arrived[1].data,
                                          streams[1].arrived[1].errors)

\* C19: an attempt that has sent connection_init and is still waiting for
\* connection_ack has waited no longer than CONNECT_TIMEOUT_SECONDS, in the
\* controller's ensure_upstream and in the transport's do_connect
C19_AckOrFailureWithinTimeout ==
    /\ ensure.state = "waiting" => ensure.waited <= CONNECT_TIMEOUT_SECONDS
    /\ transport.attempt.state = "waiting" =>
         transport.attempt.waited <= CONNECT_TIMEOUT_SECONDS

\* a step of main_loop that meets a transport failure: a connect task's
\* result is an error, or the connection in use is lost
TransportFailure ==
    \/ transport.sink /\ ~transport'.sink
    \/ /\ transport.rx_connect # <<>>
       /\ transport'.rx_connect = Tail(transport.rx_connect)
       /\ Head(transport.rx_connect) = "err"

\* build_root_selection_set, lines 210-250: the root pass and its nodes
build_root_nodes ==
    /\ builder.stage = "document"
    /\ builder' = [stage |-> "entities", document |-> builder.document,
                   state |-> root_pass_of(builder.document, builder.variables)]
    /\ UNCHANGED <<composer, merger, guard>>
    /\ UNCHANGED http_vars /\ UNCHANGED ws_vars /\ UNCHANGED conn_vars /\ UNCHANGED loop_vars

\* one turn of the loop of lines 252-303
build_entity_layer ==
    /\ builder.stage = "entities" /\ builder.state.fetch_entity_group # <<>>
    /\ builder' = [builder EXCEPT !.state = next_layer(@, entity_layer(@))]
    /\ UNCHANGED <<composer, merger, guard>>
    /\ UNCHANGED http_vars /\ UNCHANGED ws_vars /\ UNCHANGED conn_vars /\ UNCHANGED loop_vars

\* line 305: the loop is over, the plan is returned
build_plan_done ==
    /\ builder.stage = "entities" /\ builder.state.fetch_entity_group = <<>>
    /\ builder' = [stage |-> "plan", document |-> builder.document,
                   state |-> builder.state,
                   plan |-> flatten_sequence(builder.state.nodes)]
    /\ UNCHANGED <<composer, merger, guard>>
    /\ UNCHANGED http_vars /\ UNCHANGED ws_vars /\ UNCHANGED conn_vars /\ UNCHANGED loop_vars

\* the sub-requests of the Fetch and Flatten nodes of a plan
requests_of(fetches) == [i \in DOMAIN fetches |-> to_request(fetches[i])]

\* the executor runs the plan: the introspection node is resolved, and every
\* Fetch and Flatten node is turned into its sub-request
execute_plan ==
    /\ builder.stage = "plan"
    /\ builder' = [stage |-> "executed", document |-> builder.document,
                   state |-> builder.state, plan |-> builder.plan,
                   introspection |->
                     IF builder.state.nodes[1].kind = "Introspection"
                     THEN resolve_obj(builder.state.nodes[1].selection_set)
                     ELSE <<>>,
                   requests |-> requests_of(fetch_nodes_of(builder.state.nodes))]
    /\ UNCHANGED <<composer, merger, guard>>
    /\ UNCHANGED http_vars /\ UNCHANGED ws_vars /\ UNCHANGED conn_vars /\ UNCHANGED loop_vars

MaxDirectives == 2

MaxDepth == 4

\* @skip and @include with a constant or the variable $v as condition
SkipInclude ==
    {Directive(name, <<Argument("if", c)>>) :
       name \in {"skip", "include"}, c \in {Const("true"), Const("false"), Variable("v")}}

DirectiveLists == SeqsUpTo(SkipInclude, MaxDirectives)

\* a field without alias, arguments and directives
Select(name, selection_set) == DocField("", name, <<>>, <<>>, selection_set)

Document(fragments, selection_set) ==
    [fragments |-> fragments, selection_set |-> selection_set]

\* introspection: directive lists on __type, one directive on a field or on
\* an inline fragment below a root field
IntrospectionDocuments ==
    {Document(NoFragments,
              <<DocField("", "__type", <<Argument("name", Const("User"))>>, ds,
                         <<Select("name", <<>>)>>)>>) :
       ds \in DirectiveLists}
    \cup {Document(NoFragments,
                   <<Select("__schema",
                            <<Select("types", <<DocField("", "name", <<>>, <<d>>, <<>>),
                                                Select("kind", <<>>)>>),
                              Select("queryType", <<Select("name", <<>>)>>)>>)>>) :
            d \in SkipInclude}
    \cup {Document(NoFragments,
                   <<DocField("", "__type", <<Argument("name", Const("User"))>>, <<>>,
                              <<DocInline(NoType, <<d>>, <<Select("name", <<>>)>>),
                                Select("kind", <<>>)>>),
                     Select("me", <<Select("username", <<>>)>>)>>) :
            d \in SkipInclude}

\* the fragment F on a type
FragmentF(type_condition, selection_set) ==
    [name \in {"F"} |-> FragmentDefinition(type_condition, selection_set)]

\* selections of an object type with at most one directive: on a field, on
\* an inline fragment, on a fragment spread, on a field of another service
\* and on the selections around it
DirectiveDocuments ==
    UNION {
      {Document(NoFragments, <<Select("me", <<DocField("", "username", <<>>, ds, <<>>)>>)>>),
       Document(NoFragments, <<DocField("", "me", <<>>, ds, <<Select("username", <<>>)>>)>>),
       Document(NoFragments,
                <<Select("me", <<Select("id", <<>>),
                                 DocInline("User", ds, <<Select("username", <<>>)>>)>>)>>),
       Document(FragmentF("User", <<Select("username", <<>>)>>),
                <<Select("me", <<Select("id", <<>>), DocSpread("F", ds)>>)>>),
       Document(NoFragments,
                <<Select("me", <<DocField("", "reviews", <<>>, ds,
                                          <<Select("body", <<>>)>>)>>)>>),
       Document(NoFragments,
                <<Select("me", <<Select("id", <<>>),
                                 DocInline(NoType, ds,
                                           <<Select("reviews", <<Select("body", <<>>)>>)>>)>>)>>),
       Document(NoFragments,
                <<DocInline("Query", ds, <<Select("me", <<Select("username", <<>>)>>)>>)>>),
       Document(FragmentF("SearchResult", <<Select("__typename", <<>>)>>),
                <<Select("search", <<DocSpread("F", ds)>>)>>)} :
      ds \in SeqsUpTo(SkipInclude, 1)}

\* variables in arguments, in lists and in directives, used once or twice,
\* in the root fetch and in an entity fetch
VariableDocuments ==
    {Document(NoFragments,
              <<DocField("", "topProducts", <<Argument("first", Variable("n"))>>, <<>>,
                         <<Select("name", <<>>)>>)>>),
     Document(NoFragments,
              <<DocField("", "topProducts", <<Argument("first", ListValue(<<Variable("n")>>))>>,
                         <<>>,
                         <<Select("name", <<>>),
                           DocField("", "reviews", <<Argument("limit", Variable("n"))>>,
                                    <<Directive("skip", <<Argument("if", Variable("v"))>>)>>,
                                    <<Select("body", <<>>)>>)>>)>>),
     Document(NoFragments,
              <<Select("me", <<DocField("a", "reviews", <<>>, <<>>, <<Select("body", <<>>)>>),
                               DocField("b", "reviews", <<Argument("limit", Variable("n"))>>,
                                        <<>>, <<Select("id", <<>>)>>)>>)>>),
     Document(NoFragments,
              <<DocField("", "me", <<>>,
                         <<Directive("include", <<Argument("if", Variable("v"))>>)>>,
                         <<DocField("", "username", <<Argument("upper", Const("true"))>>,
                                    <<>>, <<>>)>>)>>)}

\* the selection sets of a type that follow the references between users,
\* reviews and products down to a depth
RECURSIVE Chains(_, _)
Chains(ty, depth) ==
    CASE ty = "User" ->
           {<<Select("username", <<>>)>>}
           \cup (IF depth > 1
                 THEN {<<Select("reviews", r)>> : r \in Chains("Review", depth - 1)}
                 ELSE {})
      [] ty = "Product" ->
           {<<Select("name", <<>>)>>}
           \cup (IF depth > 1
                 THEN {<<Select("reviews", r)>> : r \in Chains("Review", depth - 1)}
                 ELSE {})
      [] OTHER ->
           {<<Select("body", <<>>)>>}
           \cup (IF depth > 1
                 THEN {<<Select("author", u)>> : u \in Chains("User", depth - 1)}
                      \cup {<<Select("product", q)>> : q \in Chains("Product", depth - 1)}
                      \cup {<<Select("author", u), Select("product", q)>> :
                              u \in Chains("User", depth - 1),
                              q \in Chains("Product", depth - 1)}
                 ELSE {})

EntityDocuments ==
    {Document(NoFragments, <<Select("me", u)>>) : u \in Chains("User", MaxDepth)}
    \cup {Document(NoFragments, <<Select("topProducts", q)>>) :
            q \in Chains("Product", MaxDepth)}
    \cup {Document(NoFragments, <<Select("me", u), Select("topProducts", q)>>) :
            u \in Chains("User", MaxDepth - 1), q \in Chains("Product", MaxDepth - 1)}

\* the object types a type stands for
possible_types_of(ty) ==
    IF schema_types[ty].kind \in {"Interface", "Union"}
    THEN {schema_types[ty].possible_types[i] : i \in DOMAIN schema_types[ty].possible_types}
    ELSE {ty}

\* a fragment inside the selection of a union or an interface, inline or
\* named, on an object, an interface or a union: the fragments that the
\* validation rules let through (the condition can apply, the field exists)
AbstractDocuments ==
    UNION {
      {Document(NoFragments,
                <<Select(root, <<Select("__typename", <<>>),
                                 DocInline(type_condition, <<>>, <<Select(f, <<>>)>>)>>)>>),
       Document(FragmentF(type_condition, <<Select(f, <<>>)>>),
                <<Select(root, <<Select("__typename", <<>>), DocSpread("F", <<>>)>>)>>)} :
      <<root, type_condition, f>> \in
        {t \in {"search", "node"}
                \X {"User", "Product", "Review", "Node", "SearchResult"}
                \X {"id", "username", "__typename"} :
           /\ possible_types_of(t[2])
                \cap possible_types_of(schema_types["Query"].fields[t[1]].ty) # {}
           /\ t[3] = "__typename" \/ t[3] \in DOMAIN schema_types[t[2]].fields}}
    \cup {Document(NoFragments,
                   <<Select(root, <<DocInline(NoType, <<>>, <<Select("__typename", <<>>)>>)>>)>>) :
            root \in {"search", "node"}}

QueryDocuments ==
    IntrospectionDocuments \cup DirectiveDocuments \cup VariableDocuments
    \cup EntityDocuments \cup AbstractDocuments

\* the variables of a request: $v: Boolean! is supplied, $n: Int = 1 may
\* be left to its default
VariableMaps ==
    {[name \in {"v"} |-> b] : b \in {Const("true"), Const("false")}}
    \cup {[name \in {"v", "n"} |-> IF name = "v" THEN b ELSE Const("2")] :
            b \in {Const("true"), Const("false")}}

\* nothing but the unit at work: no request, no connection, no transport
Quiet ==
    /\ request = Request("query", NoFragments, <<>>, Null, <<>>)
    /\ plan = NoPlan
    /\ status = <<>> /\ outcome = <<>> /\ sent = <<>> /\ flags = <<>>
    /\ resp = [data |-> Null, errors |-> <<>>]
    /\ returned = FALSE
    /\ reordered = FALSE
    /\ gateway = NoGateway
    /\ client = [sent |-> <<>>, received |-> <<>>]
    /\ server = [protocol |-> "graphql-ws", open |-> FALSE, read |-> 0, controller |-> FALSE]
    /\ streams = <<>>
    /\ actor = [alive |-> FALSE, commands |-> <<>>, subscribes |-> <<>>, cancelled |-> <<>>]
    /\ upstream = [s \in WsServices |-> NoUpstream]
    /\ NoTransport

\* PlanBuilder::plan on a validated query document
InitBuilder ==
    /\ Quiet
    /\ composer = [stage |-> "none"]
    /\ builder \in {[stage |-> "document", document |-> d, variables |-> v] :
                       d \in QueryDocuments, v \in VariableMaps}
    /\ merger = [stage |-> "none"]
    /\ guard = Free
    /\ NoLoops

NextBuilder ==
    \/ build_root_nodes
    \/ build_entity_layer
    \/ build_plan_done
    \/ execute_plan

SpecBuilder == InitBuilder /\ [][NextBuilder]_vars

\* the connect task scheduled after a failure
Reconnect ==
    [state |-> "sleeping", delay |-> RECONNECT_DELAY_SECONDS, slept |-> 0, waited |-> 0]

\* a sleeping connect task starts to connect
SleepOver == transport.attempt.state = "sleeping" /\ transport'.attempt.state # "sleeping"

\* C20: every transport failure schedules a connect task that sleeps
\* RECONNECT_DELAY_SECONDS, a scheduled task starts to connect only when it
\* has slept exactly that long, and while the transport has no connection a
\* connect task is running or its result is waiting to be read
C20_ReconnectAlwaysScheduled ==
    /\ [](~transport.sink =>
            (transport.attempt.state # "none" \/ transport.rx_connect # <<>>))
    /\ [][TransportFailure => (transport'.attempt = Reconnect)]_vars
    /\ [][SleepOver => (transport.attempt.slept = RECONNECT_DELAY_SECONDS)]_vars

\* a connection was lost with a request in flight, a request made while
\* disconnected was refused, and a later connect task has connected again
C20_Witness ==
    /\ transport.sink
    /\ \E i \in DOMAIN transport.replies : transport.replies[i] = "Connection error."
    /\ \E i \in DOMAIN transport.replies : transport.replies[i] = "Not ready."

\* C21: a command the main loop takes while it has no sink is answered
\* "Not ready." and changes nothing else: no request id, nothing pending or
\* subscribed, nothing sent
C21_NotReadyWithoutConnection ==
    [][(transport'.handled = transport.handled + 1 /\ ~transport.sink) =>
         (/\ transport'.replies = Append(transport.replies, "Not ready.")
          /\ transport'.req_id = transport.req_id
          /\ transport'.pending_requests = transport.pending_requests
          /\ transport'.subscribes = transport.subscribes
          /\ transport'.sent = transport.sent
          /\ transport'.attempt = transport.attempt
          /\ transport'.rx_connect = transport.rx_connect)]_vars

\* a command was refused before the connection was there, and a later one
\* was sent upstream
C21_Witness ==
    /\ transport.sink /\ Len(transport.sent) = 1 /\ transport.req_id = 1
    /\ \E i \in DOMAIN transport.replies :
         /\ transport.replies[i] = "Not ready."
         /\ \E j \in DOMAIN transport.replies : j > i /\ transport.replies[j] = "Ok"

\* the definitions of type `name` that are objects and no extensions
OwningDefinitions(name) ==
    {i \in DOMAIN composer.sdl :
       /\ composer.sdl[i].definition.name = name
       /\ composer.sdl[i].definition.kind = "Object"
       /\ ~composer.sdl[i].definition.extend}

\* C22: when combine returns a schema, no object type has two definitions
\* that are not extensions among the subgraphs
C22_OneOwnerPerType ==
    (composer.stage = "done" /\ composer.result = "Ok") =>
       \A i \in DOMAIN composer.sdl :
          Cardinality(OwningDefinitions(composer.sdl[i].definition.name)) <= 1

(***************************************************************************)
(* merge_data on its own: a target and a fragment of any shape               *)
(***************************************************************************)
\* executor.rs line 477: merge_data(target, value) is applied to the target
merge ==
    /\ merger.stage = "input"
    /\ merger' = [stage |-> "merged", before |-> merger.target, value |-> merger.value,
                  target |-> merge_data(merger.target, merger.value)]
    /\ UNCHANGED <<composer, builder, guard>>
    /\ UNCHANGED http_vars /\ UNCHANGED ws_vars /\ UNCHANGED conn_vars /\ UNCHANGED loop_vars

MergeLen == 2

\* null and scalars
MergeScalars == {Null, Str("a"), Num(1)}

\* the objects over the keys a and b, and the lists up to MergeLen, of a set
\* of values
MergeComposites(values) ==
    {Obj(f) : f \in UNION {[keys -> values] : keys \in SUBSET {N("a"), N("b")}}}
    \cup {List(l) : l \in SeqsUpTo(values, MergeLen)}

\* values of every shape, nested once, and twice under one key or in a list
\* of one element
MergeValues ==
    LET flat == MergeScalars \cup MergeComposites(MergeScalars)
    IN  flat \cup {Obj([k \in {N("a")} |-> v]) : v \in flat}
             \cup {List(<<v>>) : v \in flat}

InitMerge ==
    /\ Quiet
    /\ composer = [stage |-> "none"]
    /\ builder = [stage |-> "none"]
    /\ merger \in {[stage |-> "input", target |-> t, value |-> v] :
                      t \in MergeValues, v \in MergeValues}
    /\ guard = Free
    /\ NoLoops

NextMerge == merge

SpecMerge == InitMerge /\ [][NextMerge]_vars

(***************************************************************************)
(* The guard of the accumulator: execute_parallel_node joins the tasks of  *)
(* the nodes of a group, each task locks self.resp where its code does.    *)
(* guard.holder is the task that holds the guard (0: nobody), a task is    *)
(* its kind and the place it has reached.                                  *)
(***************************************************************************)
\* the first await of a task: a Fetch node calls the fetcher (line 217), a
\* Flatten node asks for the guard (line 398), an Introspection node
\* resolves and asks for the guard (line 198)
task_start(i) ==
    /\ guard.tasks[i].pc = "start"
    /\ guard' = [guard EXCEPT !.tasks[i].pc =
                    CASE guard.tasks[i].kind = "Fetch" -> "query"
                      [] guard.tasks[i].kind = "Flatten" -> "lock keys"
                      [] OTHER -> "lock"]
    /\ UNCHANGED <<composer, builder, merger>>
    /\ UNCHANGED http_vars /\ UNCHANGED ws_vars /\ UNCHANGED conn_vars /\ UNCHANGED loop_vars

\* self.resp.lock().await returns: the guard was free and is the task's
task_lock(i) ==
    /\ guard.tasks[i].pc \in {"lock keys", "lock"}
    /\ guard.holder = 0
    /\ guard' = [guard EXCEPT !.holder = i,
                               !.tasks[i].pc = IF @ = "lock keys" THEN "keys" ELSE "merge"]
    /\ UNCHANGED <<composer, builder, merger>>
    /\ UNCHANGED http_vars /\ UNCHANGED ws_vars /\ UNCHANGED conn_vars /\ UNCHANGED loop_vars

\* a Flatten node that goes on to its fetcher call with the guard in hand
flatten_keys_held(i, empty) ==
    /\ guard.tasks[i].pc = "keys"
    /\ guard' = [guard EXCEPT !.holder = IF empty THEN 0 ELSE @,
                               !.tasks[i].pc = IF empty THEN "done" ELSE "query"]
    /\ UNCHANGED <<composer, builder, merger>>
    /\ UNCHANGED http_vars /\ UNCHANGED ws_vars /\ UNCHANGED conn_vars /\ UNCHANGED loop_vars

\* execute_flatten_node, lines 396-425: the representations are taken out
\* under the guard; the block ends and drops the guard, by the early return
\* when there are none or at its end, and the fetcher is called (line 441)
flatten_keys(i, empty) ==
    /\ guard.tasks[i].pc = "keys"
    /\ guard' = [guard EXCEPT !.holder = 0,
                               !.tasks[i].pc = IF empty THEN "done" ELSE "query"]
    /\ UNCHANGED <<composer, builder, merger>>
    /\ UNCHANGED http_vars /\ UNCHANGED ws_vars /\ UNCHANGED conn_vars /\ UNCHANGED loop_vars

\* fetcher.query(..).await returns, and the task asks for the guard (lines
\* 217-218 and 441-442)
query_returns(i) ==
    /\ guard.tasks[i].pc = "query"
    /\ guard' = [guard EXCEPT !.tasks[i].pc = "lock"]
    /\ UNCHANGED <<composer, builder, merger>>
    /\ UNCHANGED http_vars /\ UNCHANGED ws_vars /\ UNCHANGED conn_vars /\ UNCHANGED loop_vars

\* the data or the errors are merged under the guard, and the guard is
\* dropped at the end of the function
task_merge(i) ==
    /\ guard.tasks[i].pc = "merge"
    /\ guard' = [guard EXCEPT !.holder = 0, !.tasks[i].pc = "done"]
    /\ UNCHANGED <<composer, builder, merger>>
    /\ UNCHANGED http_vars /\ UNCHANGED ws_vars /\ UNCHANGED conn_vars /\ UNCHANGED loop_vars

MaxTasks == 3

\* the nodes of a group: Fetch nodes, Flatten nodes, or the Introspection
\* node on its own
TaskGroups ==
    {[i \in 1..n |-> [kind |-> kind, pc |-> "start"]] :
       n \in 1..MaxTasks, kind \in {"Fetch", "Flatten"}}
    \cup {<<[kind |-> "Introspection", pc |-> "start"]>>}

InitGuard ==
    /\ Quiet
    /\ composer = [stage |-> "none"]
    /\ builder = [stage |-> "none"]
    /\ merger = [stage |-> "none"]
    /\ guard \in {[holder |-> 0, tasks |-> tasks] : tasks \in TaskGroups}
    /\ NoLoops

NextGuard ==
    \/ \E i \in DOMAIN guard.tasks : task_start(i)
    \/ \E i \in DOMAIN guard.tasks : task_lock(i)
    \/ \E i \in DOMAIN guard.tasks, empty \in BOOLEAN : flatten_keys(i, empty)
    \/ \E i \in DOMAIN guard.tasks : query_returns(i)
    \/ \E i \in DOMAIN guard.tasks : task_merge(i)

SpecGuard == InitGuard /\ [][NextGuard]_vars

\* a directive list holds @skip(if: true) or @include(if: false)
Excluded(directives) ==
    \E i \in DOMAIN directives :
       \/ directives[i].name = "skip" /\ condition_input(directives[i])
       \/ directives[i].name = "include" /\ ~condition_input(directives[i])

\* the resolved object has the key of a field exactly when its directives do
\* not exclude it, at every depth
RECURSIVE Honoured(_, _)
Honoured(selection_set, obj) ==
    \A i \in DOMAIN selection_set :
       LET key == introspection_key(selection_set[i])
       IN  /\ key \in DOMAIN obj <=> ~Excluded(selection_set[i].directives)
           /\ key \in DOMAIN obj => Honoured(selection_set[i].selection_set, obj[key])

\* C23: an introspection field is left out of the introspection result
\* exactly when its directives, with the variables substituted, hold
\* @skip(if: true) or @include(if: false), however many they are and in
\* whichever order
C23_IntrospectionSkipInclude ==
    (builder.stage = "executed" /\ builder.state.nodes[1].kind = "Introspection") =>
       Honoured(builder.state.nodes[1].selection_set, builder.introspection)

\* the directives of a selection with the variables of the request put in
substituted(directives, variables) ==
    [i \in DOMAIN directives |->
       Directive(directives[i].name, convert_arguments(directives[i].arguments, variables))]

\* the response paths a document asks for: a field, fragment spread or inline
\* fragment that its directives exclude asks for nothing
RECURSIVE included_paths(_, _, _, _)
included_paths(selection_set, fragments, variables, prefix) ==
    UNION {
      LET selection == selection_set[i]
      IN  IF Excluded(substituted(selection.directives, variables)) THEN {}
          ELSE CASE selection.sel = "Field" ->
                      {Append(prefix, response_key(selection))}
                      \cup included_paths(selection.selection_set, fragments, variables,
                                          Append(prefix, response_key(selection)))
                 [] selection.sel = "FragmentSpread" ->
                      included_paths(fragments[selection.fragment_name].selection_set,
                                     fragments, variables, prefix)
                 [] OTHER ->
                      included_paths(selection.selection_set, fragments, variables, prefix) :
      i \in DOMAIN selection_set}

\* the response paths a service answers for the selection set of a
\* sub-request: it applies the directives written in the query text, and
\* the key fields of a RequiredRef are no part of the response
RECURSIVE fetched_paths(_, _, _)
fetched_paths(selection_set, variables, prefix) ==
    UNION {
      LET selection == selection_set[i]
      IN  CASE selection.ref = "FieldRef" ->
                 IF Excluded(substituted(selection.field.directives, variables)) THEN {}
                 ELSE {Append(prefix, response_key(selection.field))}
                      \cup fetched_paths(selection.selection_set, variables,
                                         Append(prefix, response_key(selection.field)))
            [] selection.ref = "InlineFragment" ->
                 fetched_paths(selection.selection_set, variables, prefix)
            [] selection.ref = "IntrospectionTypename" -> {Append(prefix, "__typename")}
            [] OTHER -> {} :
      i \in DOMAIN selection_set}

\* the paths of a resolved introspection object
RECURSIVE object_paths(_, _)
object_paths(obj, prefix) ==
    UNION {{Append(prefix, key)} \cup object_paths(obj[key], Append(prefix, key)) :
             key \in DOMAIN obj}

\* the response paths of the Fetch and Flatten nodes run in order: a Flatten
\* node adds its fields below its path when the path is in the response
RECURSIVE response_paths(_, _, _)
response_paths(fetches, variables, paths) ==
    IF fetches = <<>> THEN paths
    ELSE LET node == Head(fetches)
             at == IF node.kind = "Flatten"
                   THEN [i \in DOMAIN node.path |-> node.path[i].name] ELSE <<>>
         IN  response_paths(
                 Tail(fetches), variables,
                 IF at = <<>> \/ at \in paths
                 THEN paths \cup fetched_paths(node.query.selection_set, variables, at)
                 ELSE paths)

\* C24: a selection that a @skip or @include directive of the client
\* operation excludes, on a field, a fragment spread or an inline fragment,
\* contributes nothing to the final response: every path of the
\* introspection result and of the answers to the sub-requests is a path the
\* document asks for with its directives applied
C24_DirectivesHonoured ==
    builder.stage = "executed" =>
       response_paths(fetch_nodes_of(builder.state.nodes), builder.state.variables,
                      object_paths(builder.introspection, <<>>))
         \subseteq included_paths(builder.document.selection_set,
                                  builder.document.fragments,
                                  builder.state.variables, <<>>)

\* the variables a query text refers to: its $name tokens outside the
\* declarations of the operation
text_variables(query) == {query[i].s : i \in {j \in DOMAIN query : query[j].t = "var"}}

\* C25 as stated: the variables map of every sub-request holds exactly the
\* variables its query text refers to
C25_VariablesExactlyReferenced ==
    builder.stage = "executed" =>
       \A i \in DOMAIN builder.requests :
          DOMAIN builder.requests[i].variables = text_variables(builder.requests[i].query)

\* C25: the variables map of every Fetch and Flatten sub-request holds
\* exactly the variables its query text refers to that have a value: one
\* supplied with the client request, or the representations of a Flatten
\* node
C25_SuppliedVariablesExactlyReferenced ==
    builder.stage = "executed" =>
       \A i \in DOMAIN builder.requests :
          DOMAIN builder.requests[i].variables =
            text_variables(builder.requests[i].query)
              \cap (DOMAIN builder.state.variables \cup {"representations"})

\* an entity sub-request refers to $n and $v below its root: $v was
\* supplied and is in its map with the representations, $n was not
C25_Witness ==
    /\ builder.stage = "executed"
    /\ \E i \in DOMAIN builder.requests :
         /\ {"n", "v", "representations"} \subseteq text_variables(builder.requests[i].query)
         /\ DOMAIN builder.requests[i].variables = {"v", "representations"}

\* the Flatten nodes built so far
flatten_nodes == SelectSeq(fetch_nodes_of(builder.state.nodes), LAMBDA n : n.kind = "Flatten")

\* the groups and the Flatten nodes made of them have the prefixes
\* 1 .. key_id - 1, each once, and no two groups have the same key
PrefixesAllocatedOnce ==
    LET group == builder.state.fetch_entity_group
    IN  /\ \A i, j \in DOMAIN flatten_nodes :
              i # j => flatten_nodes[i].prefix # flatten_nodes[j].prefix
        /\ \A i, j \in DOMAIN group :
              i # j => group[i].prefix # group[j].prefix /\ group[i].key # group[j].key
        /\ \A i \in DOMAIN flatten_nodes, j \in DOMAIN group :
              flatten_nodes[i].prefix # group[j].prefix
        /\ {flatten_nodes[i].prefix : i \in DOMAIN flatten_nodes}
             \cup {group[j].prefix : j \in DOMAIN group} = 1 .. (builder.state.key_id - 1)

\* the counter of the prefixes does not go down
CounterGrows ==
    (builder.stage = "entities" /\ builder'.stage = "entities") =>
       builder'.state.key_id >= builder.state.key_id

\* C26: no two Flatten nodes of a root plan have the same prefix; the
\* prefixes come from a counter that only grows, and every fetch-entity
\* group, keyed by service, response path and parent type, has one prefix
\* of its own
C26_UniquePrefixes ==
    /\ [](builder.stage \in {"entities", "plan", "executed"} => PrefixesAllocatedOnce)
    /\ [][CounterGrows]_vars

\* a plan with three Flatten nodes in more than one layer
C26_Witness ==
    /\ builder.stage = "plan"
    /\ Len(flatten_nodes) >= 3
    /\ builder.state.layers >= 2
    /\ \E i \in DOMAIN builder.state.nodes : builder.state.nodes[i].kind = "Parallel"

\* the service that resolves a field of a type: the one of the field, else
\* the owner of the type
service_of(ty, name) ==
    IF schema_types[ty].fields[name].service # NoService
    THEN schema_types[ty].fields[name].service
    ELSE schema_types[ty].owner

\* the (service, response path, type) triples of the fields of a document:
\* each field with the path and the object type it is selected on
RECURSIVE triples(_, _, _, _)
triples(selection_set, fragments, parent_type, path) ==
    UNION {
      LET selection == selection_set[i]
      IN  CASE selection.sel = "Field" ->
                 UNION {
                   IF selection.name \in DOMAIN schema_types[ty].fields
                   THEN {<<service_of(ty, selection.name), path, ty>>}
                        \cup triples(selection.selection_set, fragments,
                                     schema_types[ty].fields[selection.name].ty,
                                     Append(path, response_key(selection)))
                   ELSE {} :
                   ty \in possible_types_of(parent_type)}
            [] selection.sel = "FragmentSpread" ->
                 triples(fragments[selection.fragment_name].selection_set, fragments,
                         parent_type, path)
            [] OTHER -> triples(selection.selection_set, fragments, parent_type, path) :
      i \in DOMAIN selection_set}

\* the response path of a fetch-entity group as response keys
key_path(group) == [i \in DOMAIN group.key.path |-> group.key.path[i].name]

\* C27: planning terminates: the entity loop never makes more layers of
\* Flatten nodes than the document has distinct (service, response path,
\* type) triples, and while a group is pending the bound is not yet
\* reached: every pending group is one of the triples of the document, at a
\* path that is longer than the number of layers made
C27_PlanningTerminates ==
    builder.stage # "document" =>
       LET bound == triples(builder.document.selection_set,
                            builder.document.fragments, "Query", <<>>)
           group == builder.state.fetch_entity_group
       IN  /\ builder.state.layers <= Cardinality(bound)
           /\ group # <<>> => builder.state.layers < Cardinality(bound)
           /\ \A i \in DOMAIN group :
                 /\ <<group[i].key.service, key_path(group[i]), group[i].key.ty>> \in bound
                 /\ Len(group[i].key.path) > builder.state.layers

\* a plan returned after two turns of the entity loop
C27_Witness ==
    /\ builder.stage = "plan"
    /\ builder.state.layers = 2
    /\ builder.state.fetch_entity_group = <<>>
    /\ Len(flatten_nodes) >= 2

\* a selection set with every fragment spread written as the inline fragment
\* of the same type condition, directives and selection set
RECURSIVE inlined(_, _)
inlined(selection_set, fragments) ==
    [i \in DOMAIN selection_set |->
       LET selection == selection_set[i]
       IN  CASE selection.sel = "Field" ->
                  [selection EXCEPT !.selection_set = inlined(@, fragments)]
             [] selection.sel = "FragmentSpread" ->
                  DocInline(fragments[selection.fragment_name].type_condition,
                            selection.directives,
                            inlined(fragments[selection.fragment_name].selection_set,
                                    fragments))
             [] OTHER -> [selection EXCEPT !.selection_set = inlined(@, fragments)]]

\* the document selects a field of an interface or union type and spreads a
\* named fragment in its selection
SpreadInAbstract(document) ==
    /\ document.fragments # <<>>
    /\ \E i \in DOMAIN document.selection_set :
         /\ document.selection_set[i].sel = "Field"
         /\ document.selection_set[i].name \in {"search", "node"}
         /\ \E j \in DOMAIN document.selection_set[i].selection_set :
               document.selection_set[i].selection_set[j].sel = "FragmentSpread"

\* a plan as it is serialized and run: the layers of its nodes, each Fetch
\* and Flatten node with its service, path, prefix and sub-request (a
\* FieldRef points into the client document, of which only the alias, name,
\* arguments and directives are written)
serialized(nodes) ==
    [i \in DOMAIN nodes |->
       LET fetches == fetch_nodes_of(<<nodes[i]>>)
       IN  [j \in DOMAIN fetches |->
              [service |-> fetches[j].service,
               at |-> IF fetches[j].kind = "Flatten"
                      THEN <<fetches[j].path, fetches[j].prefix>> ELSE <<>>,
               request |-> to_request(fetches[j])]]]

\* C28: inside the selection of an interface or union field, a named
\* fragment spread yields the plan of the inline fragment with the same type
\* condition and selection set, whether the condition is a member type, an
\* interface or a union
C28_SpreadAsInlineFragment ==
    (builder.stage = "plan" /\ SpreadInAbstract(builder.document)) =>
       serialized(builder.state.nodes)
         = serialized(build_entity_layers(
                          root_pass_of(Document(NoFragments,
                                                inlined(builder.document.selection_set,
                                                        builder.document.fragments)),
                                       builder.state.variables)).nodes)

\* what was in the target is still at its place: a scalar is unchanged, an
\* object has kept its keys and a list its length, and so below them
RECURSIVE Keeps(_, _)
Keeps(before, after) ==
    CASE before.t = "null" -> TRUE
      [] before.t = "obj" ->
           /\ after.t = "obj" /\ DOMAIN before.f \subseteq DOMAIN after.f
           /\ \A k \in DOMAIN before.f : Keeps(before.f[k], after.f[k])
      [] before.t = "list" ->
           /\ after.t = "list" /\ Len(after.l) = Len(before.l)
           /\ \A i \in DOMAIN before.l : Keeps(before.l[i], after.l[i])
      [] OTHER -> after = before

\* the effect of a merge by shape: a null target takes the fragment; object
\* into object adds the missing keys and merges below the keys of both;
\* list into list of the same length merges the elements; anything else
\* leaves the target as it was
RECURSIVE MergedByShape(_, _, _)
MergedByShape(before, value, after) ==
    IF before.t = "null" THEN after = value
    ELSE IF before.t = "obj" /\ value.t = "obj"
    THEN /\ after.t = "obj" /\ DOMAIN after.f = DOMAIN before.f \cup DOMAIN value.f
         /\ \A k \in DOMAIN after.f :
               IF k \notin DOMAIN value.f THEN after.f[k] = before.f[k]
               ELSE IF k \notin DOMAIN before.f THEN after.f[k] = value.f[k]
               ELSE MergedByShape(before.f[k], value.f[k], after.f[k])
    ELSE IF before.t = "list" /\ value.t = "list" /\ Len(before.l) = Len(value.l)
    THEN /\ after.t = "list" /\ Len(after.l) = Len(before.l)
         /\ \A i \in DOMAIN after.l : MergedByShape(before.l[i], value.l[i], after.l[i])
    ELSE after = before

\* C29: merge_data destroys no data of the target: when the shapes do not
\* match (object and list, lists of different lengths, a scalar that is not
\* null and anything) the target is unchanged, otherwise only null targets
\* are filled and missing keys inserted, with the same rule below the keys
\* and elements of both sides
C29_MergeKeepsData ==
    merger.stage = "merged" =>
       /\ Keeps(merger.before, merger.target)
       /\ MergedByShape(merger.before, merger.value, merger.target)

\* an object was merged into an object: a key of both sides kept its scalar
\* against another scalar, and a key of the fragment alone was inserted
C29_Witness ==
    /\ merger.stage = "merged"
    /\ merger.before = Obj([k \in {N("a")} |-> Str("a")])
    /\ merger.value = Obj([k \in {N("a"), N("b")} |-> Num(1)])
    /\ merger.target = Obj([k \in {N("a"), N("b")} |->
                               IF k = N("a") THEN Str("a") ELSE Num(1)])

\* C30: no task holds the guard of the accumulator while it waits for an
\* upstream sub-request: the holder of the guard is a task that takes keys
\* out of the accumulator or merges into it, and no other task
C30_GuardNotHeldAcrossQuery ==
    /\ \A i \in DOMAIN guard.tasks : guard.tasks[i].pc = "query" => guard.holder # i
    /\ guard.holder # 0 => guard.tasks[guard.holder].pc \in {"keys", "merge"}
    /\ \A i \in DOMAIN guard.tasks :
          guard.tasks[i].pc \in {"keys", "merge"} => guard.holder = i

\* a Flatten node waits for its sub-request with keys it took under the
\* guard, while another node of the group holds the guard and merges
C30_Witness ==
    \E i, j \in DOMAIN guard.tasks :
       /\ guard.tasks[i].kind = "Flatten" /\ guard.tasks[i].pc = "query"
       /\ guard.tasks[j].pc = "merge" /\ guard.holder = j


\* C40: while the transport has no connection, no query is pending and no
\* subscription stream is kept open: what was sent over the lost connection
\* was completed with an error (pending_requests drained) or ended (the
\* sender of its stream dropped)
C40_LostConnectionEndsRequests ==
    ~transport.sink =>
        /\ transport.pending_requests = {}
        /\ transport.subscribes = {}


(***************************************************************************)
(* SharedRouteTable::update_loop with update() unfolded: the loop is in    *)
(* its select (pc "select") or inside the tick branch, where update() has  *)
(* read the route table and waits for the SDL of its services (pc          *)
(* "fetching").  A route table is the set of its services, a composed      *)
(* schema the set of services it was composed from.                        *)
(***************************************************************************)
\* SharedRouteTable::default: Inner without schema and route table, the
\* command channel empty, update_loop spawned
NewSharedRouteTable ==
    [stage |-> "loop", inner |-> [schema |-> None, route_table |-> None],
     rx |-> <<>>, sent |-> 0, pc |-> "select", route_table |-> {}, raced |-> FALSE]

MaxTables == 3

RouteTables == {{"accounts"}, {"accounts", "products"}, {"accounts", "products", "reviews"}}

\* SharedRouteTable::set_route_table, line 123: Command::Change is sent
Change(route_table) ==
    /\ shared.stage = "loop" /\ shared.sent < MaxTables
    /\ shared' = [shared EXCEPT !.rx = Append(@, route_table), !.sent = @ + 1]
    /\ UNCHANGED <<composer, builder, merger, guard, mux>>
    /\ UNCHANGED http_vars /\ UNCHANGED ws_vars /\ UNCHANGED conn_vars

\* an update loop that takes a Change command while update() is waiting
update_loop_recv_during_update ==
    /\ shared.stage = "loop" /\ shared.rx # <<>>
    /\ shared' = [shared EXCEPT !.rx = Tail(@),
                                !.inner = [schema |-> None,
                                           route_table |-> Some(Head(shared.rx))]]
    /\ UNCHANGED <<composer, builder, merger, guard, mux>>
    /\ UNCHANGED http_vars /\ UNCHANGED ws_vars /\ UNCHANGED conn_vars

\* update_loop, lines 67-76: the select takes `rx.recv()`; the route table is
\* stored and the schema dropped under the write lock
update_loop_recv ==
    /\ shared.stage = "loop" /\ shared.pc = "select" /\ shared.rx # <<>>
    /\ shared' = [shared EXCEPT !.rx = Tail(@),
                                !.inner = [schema |-> None,
                                           route_table |-> Some(Head(shared.rx))]]
    /\ UNCHANGED <<composer, builder, merger, guard, mux>>
    /\ UNCHANGED http_vars /\ UNCHANGED ws_vars /\ UNCHANGED conn_vars

\* update_loop, line 62, and update, lines 96-101: the select takes the tick;
\* update() returns at once without a route table, else it clones the route
\* table and queries the SDL of every service
update_begin ==
    /\ shared.stage = "loop" /\ shared.pc = "select"
    /\ shared.inner.route_table.is_some
    /\ shared' = [shared EXCEPT !.pc = "fetching",
                                !.route_table = shared.inner.route_table.value]
    /\ UNCHANGED <<composer, builder, merger, guard, mux>>
    /\ UNCHANGED http_vars /\ UNCHANGED ws_vars /\ UNCHANGED conn_vars

\* update, lines 101-119: try_join_all and combine fail (`?`), or the schema
\* composed from the services that were queried is stored; the tick branch
\* ends and the loop selects again.  `raced` records that a schema was
\* stored while another route table was waiting in the channel
update_end(ok) ==
    /\ shared.stage = "loop" /\ shared.pc = "fetching"
    /\ shared' = [shared EXCEPT
                    !.pc = "select",
                    !.inner.schema = IF ok THEN Some(shared.route_table) ELSE @,
                    !.raced = @ \/ (ok /\ shared.rx # <<>>
                                       /\ Head(shared.rx) # shared.route_table)]
    /\ UNCHANGED <<composer, builder, merger, guard, mux>>
    /\ UNCHANGED http_vars /\ UNCHANGED ws_vars /\ UNCHANGED conn_vars

\* nothing but the unit at work: the other units idle
OtherUnitsIdle ==
    /\ composer = [stage |-> "none"]
    /\ builder = [stage |-> "none"]
    /\ merger = [stage |-> "none"]
    /\ guard = Free

InitShared ==
    /\ Quiet /\ OtherUnitsIdle
    /\ shared = NewSharedRouteTable
    /\ mux = [stage |-> "none"]

NextShared ==
    \/ \E route_table \in RouteTables : Change(route_table)
    \/ update_loop_recv
    \/ update_begin
    \/ \E ok \in BOOLEAN : update_end(ok)

SpecShared == InitShared /\ [][NextShared]_vars

\* C37: a stored schema was composed from the services of the stored route
\* table, and a Change command is taken only while no update() is on its way
C37_SchemaOfStoredRouteTable ==
    /\ shared.inner.schema.is_some =>
          /\ shared.inner.route_table.is_some
          /\ shared.inner.schema.value = shared.inner.route_table.value
    /\ shared.pc = "fetching" =>
          /\ shared.inner.route_table.is_some
          /\ shared.route_table = shared.inner.route_table.value

\* update() stored its schema while a Change to another route table, sent
\* after update() had started, was waiting; the schema is still the one of
\* the stored route table
C37_Witness ==
    /\ shared.raced /\ shared.inner.schema.is_some
    /\ shared.pc = "select" /\ shared.rx # <<>>
    /\ shared.inner.schema.value # Head(shared.rx)


(***************************************************************************)
(* SpecKeys: the plan builder on selections of `viewer`, an Account whose  *)
(* key for the reviews service is nested, "org { id region } login", and   *)
(* whose field karma of the reviews service requires email.                *)
(***************************************************************************)
MaxKeySelections == 3

\* what a client selects on an Account
AccountSelections ==
    {Select("login", <<>>), Select("email", <<>>), Select("karma", <<>>),
     Select("org", <<Select("id", <<>>)>>),
     Select("org", <<Select("id", <<>>), Select("region", <<>>)>>),
     Select("reviews", <<Select("body", <<>>)>>),
     DocField("r", "reviews", <<>>, <<>>, <<Select("id", <<>>)>>)}

KeyDocuments ==
    {Document(NoFragments, <<Select("viewer", q)>>) :
       q \in {q \in SeqsUpTo(AccountSelections, MaxKeySelections) :
                /\ q # <<>>
                /\ \A i, j \in DOMAIN q : i # j => response_key(q[i]) # response_key(q[j])}}

InitKeys ==
    /\ Quiet
    /\ composer = [stage |-> "none"]
    /\ builder \in {[stage |-> "document", document |-> d,
                     variables |-> [name \in {} |-> Const("true")]] : d \in KeyDocuments}
    /\ merger = [stage |-> "none"]
    /\ guard = Free
    /\ NoLoops

SpecKeys == InitKeys /\ [][NextBuilder]_vars

\* the required-refs of a selection set, at every depth
RECURSIVE required_refs(_)
required_refs(selection_set) ==
    Concat([i \in DOMAIN selection_set |->
              CASE selection_set[i].ref = "RequiredRef" -> <<selection_set[i]>>
                [] selection_set[i].ref = "IntrospectionTypename" -> <<>>
                [] OTHER -> required_refs(selection_set[i].selection_set)])

\* the required-refs of the sub-requests of the plan
PlanRequiredRefs ==
    Concat([i \in DOMAIN fetch_nodes_of(builder.state.nodes) |->
              required_refs(fetch_nodes_of(builder.state.nodes)[i].query.selection_set)])

\* the names of the fields of a key, at every nesting level, parents first
RECURSIVE key_names(_)
key_names(fields) ==
    Concat([i \in DOMAIN fields |-> <<fields[i].name>> \o key_names(fields[i].children)])

\* what a required-ref is written as, without the braces of the selection
\* set around it
required_ref_text(required_ref) ==
    LET text == stringify_selection_ref_set_rec(<<required_ref>>)
    IN  SubSeq(text, 2, Len(text) - 1)

\* the names of the fields a text selects, and the aliases it gives
names_of(text) == SelectSeq(text, LAMBDA tok : tok.t = "name")

aliases_of(text) == SelectSeq(text, LAMBDA tok : tok.t = "key")

\* a text is part of another, as it stands
IsPartOf(part, text) ==
    \E at \in 0..(Len(text) - Len(part)) : SubSeq(text, at + 1, at + Len(part)) = part

\* C35: the required-ref of a fetch-entity group, as written into the
\* sub-request, selects __typename and every field of the key at every
\* nesting level, each top-level key field under the alias
\* __key{prefix}_<name>
C35_RequiredRefSelectsWholeKey ==
    builder.stage = "executed" =>
       \A i \in DOMAIN PlanRequiredRefs :
          LET required_ref == PlanRequiredRefs[i]
              text == required_ref_text([required_ref EXCEPT !.requires = None])
          IN  /\ \E r \in DOMAIN builder.requests :
                    IsPartOf(required_ref_text(required_ref), builder.requests[r].query)
              /\ names_of(text)
                   = [n \in DOMAIN key_names(required_ref.fields) \cup {1}
                                   \cup {Len(key_names(required_ref.fields)) + 1} |->
                        Tok("name", IF n = 1 THEN "__typename"
                                    ELSE key_names(required_ref.fields)[n - 1])]
              /\ aliases_of(text)
                   = [n \in 1..(Len(required_ref.fields) + 1) |->
                        Tok("key", key_alias(required_ref.prefix,
                                             IF n = 1 THEN "__typename"
                                             ELSE required_ref.fields[n - 1].name))]

\* the fields of the fetch-entity group of a Flatten node: the fields at the
\* top of its entity selection
group_fields(node) ==
    SelectSeq(node.query.selection_set, LAMBDA ref : ref.ref = "FieldRef")

\* C36: for every field of a fetch-entity group with @requires, the
\* required-ref of the group (the one with the prefix of its Flatten node)
\* selects the required fields under the aliases of the prefix
C36_RequiresSelected ==
    builder.stage = "executed" =>
       \A n \in DOMAIN flatten_nodes :
          \A f \in DOMAIN group_fields(flatten_nodes[n]) :
             LET node == flatten_nodes[n]
                 meta_field == schema_types[node.query.entity_type]
                                 .fields[group_fields(node)[f].field.name]
             IN  meta_field.requires.is_some =>
                    \E i \in DOMAIN PlanRequiredRefs :
                       /\ PlanRequiredRefs[i].prefix = node.prefix
                       /\ \A k \in DOMAIN meta_field.requires.value :
                             Tok("key", key_alias(node.prefix, meta_field.requires.value[k].name))
                               \in {required_ref_text(PlanRequiredRefs[i])[t] :
                                      t \in DOMAIN required_ref_text(PlanRequiredRefs[i])}

(***************************************************************************)
(* SpecLists: one Flatten node run on what an upstream answers for a field *)
(* of a list type whose objects carry the keys of the node's prefix: a     *)
(* list of objects (type [T]) or a list of lists of objects (type [[T]]).  *)
(* is_list (builder.rs 882-884) is true of both types.                     *)
(***************************************************************************)
KeyedSlots == {"T", "null"}

\* the values of a field of type [T]: up to EventLen slots
FlatLists == {slot_list(q, 0) : q \in SeqsUpTo(KeyedSlots, EventLen)}

\* the elements of a value of type [[T]]: null, or a list of slots
InnerLists(base) == {Null} \cup {slot_list(q, base) : q \in SeqsUpTo(KeyedSlots, EventLen)}

RECURSIVE NestedLists(_)
NestedLists(n) ==
    IF n = 0 THEN {<<>>}
    ELSE NestedLists(n - 1)
         \cup {Append(l, e) : l \in {l \in NestedLists(n - 1) : Len(l) = n - 1},
                              e \in InnerLists((n - 1) * (EventLen + 1))}

ListEvents ==
    {ObjOf(<< <<N("a"), l>> >>) : l \in FlatLists}
    \cup {ObjOf(<< <<N("a"), List(l)>> >>) : l \in NestedLists(EventLen)}

InitLists == InitStream({<<PathSegment("a", TRUE, NoType)>>}, ListEvents, {EntityErrors})

SpecLists == InitLists /\ [][NextFlatten]_vars

\* a key "__key{p}_{n}" somewhere in a value
RECURSIVE has_key_alias(_)
has_key_alias(value) ==
    CASE value.t = "obj" ->
           \E k \in DOMAIN value.f : k.p # 0 \/ has_key_alias(value.f[k])
      [] value.t = "list" -> \E i \in DOMAIN value.l : has_key_alias(value.l[i])
      [] OTHER -> FALSE

\* C38: once the plan has run, the data returned holds no key that begins
\* with `__key`, whatever the outcome of the Flatten node's sub-request and
\* whichever slots were recorded as skipped
C38_NoKeyAliasReturned == returned => ~has_key_alias(resp.data)


(***************************************************************************)
(* SpecController: the actor of one WebSocketController (controller.rs)    *)
(* and the callers of WebSocketController::subscribe on it: the streams of *)
(* execute_stream for the subscriptions of a client, which chooses their   *)
(* ids, and the calls of WebSocketFetcher::query, whose ids are            *)
(* "__req{n}" with n counted by each fetcher from 0.  Caller k owns the    *)
(* channel k; a response is named by the caller whose request the upstream *)
(* answers with it.  A sender of tokio's channels lives in the command or  *)
(* the SubscribeInfo that holds it: what the callers see of a reply and of *)
(* a channel is computed from the queue and the table of the actor.        *)
(***************************************************************************)
MaxCallers == 2

MaxData == 1

MaxFetchers == 2

MaxStops == 1

MuxServices == {"accounts", "products", "reviews"}

\* the ids a client gives its subscriptions
ClientIds == {"1"}

\* the subscribe nodes of a subscription, in the order of the plan
StreamServices ==
    {<<s>> : s \in MuxServices}
    \cup {<<"accounts", "products">>, <<"products", "reviews">>, <<"reviews", "accounts">>}

Range(q) == {q[i] : i \in DOMAIN q}

\* WebSocketController::new: the command channel empty, main spawned with
\* no upstream and no subscription; no caller yet, every fetcher at id 0
NewController ==
    [stage |-> "actor", alive |-> TRUE, panicked |-> FALSE,
     commands |-> <<>>, subscribes |-> <<>>, upstream_info |-> <<>>,
     sent |-> [s \in MuxServices |-> {}], data |-> 0, stops |-> 0,
     callers |-> <<>>, fetchers |-> [f \in 1..MaxFetchers |-> 0]]

SubscribeCommand(k, id, service) ==
    [type |-> "subscribe", caller |-> k, id |-> id, service |-> service]

StopCommand(k, id) == [type |-> "stop", caller |-> k, id |-> id, service |-> ""]

\* UpstreamInfo.subscribe_count, 0 without an entry
subscribe_count(mx, s) == IF s \in DOMAIN mx.upstream_info THEN mx.upstream_info[s] ELSE 0

\* the senders of channel k the actor holds: SubscribeCommand.tx of the
\* commands in its queue, SubscribeInfo.tx of its table
actor_senders(mx, k) ==
    Cardinality({i \in DOMAIN mx.commands :
                   mx.commands[i].type = "subscribe" /\ mx.commands[i].caller = k})
    + Cardinality({id \in DOMAIN mx.subscribes : mx.subscribes[id].tx = k})

\* execute_stream keeps `tx` until try_join_all has answered; query moves
\* its `tx` into the command
caller_holds_tx(mx, k) ==
    mx.callers[k].kind = "stream" /\ mx.callers[k].state = "subscribing"

\* UnboundedReceiver::recv answers None: nothing queued and no sender left
channel_closed(mx, k) ==
    /\ mx.callers[k].rx = <<>>
    /\ actor_senders(mx, k) = 0
    /\ ~caller_holds_tx(mx, k)

\* WebSocketController::subscribe, lines 84-99, as the caller sees it: the
\* reply the actor sent; else pending while the command, and with it the
\* reply sender, is in the queue; else "Connection closed." (the send failed
\* or the reply sender was dropped)
subscribe(mx, k, s) ==
    IF mx.callers[k].reply[s] # "none" THEN mx.callers[k].reply[s]
    ELSE IF \E i \in DOMAIN mx.commands :
              mx.commands[i] = SubscribeCommand(k, mx.callers[k].id, s)
    THEN "pending"
    ELSE "Connection closed."

\* the errors of a caller's subscribe calls that have failed
subscribe_errors(mx, k) ==
    {subscribe(mx, k, s) : s \in Range(mx.callers[k].services)} \ {"ok", "pending"}

\* try_join_all of a caller's subscribe calls (executor.rs 88-112; the one
\* call of a query, fetcher.rs 57-59): failed with the first call that
\* fails, ok when every call is acknowledged
subscribed(mx, k) ==
    IF subscribe_errors(mx, k) # {} THEN "failed"
    ELSE IF \E s \in Range(mx.callers[k].services) : subscribe(mx, k, s) = "pending"
    THEN "pending"
    ELSE "ok"

\* an actor whose command queue outlives it
main_return_keep_commands(mx, panicked) ==
    [mx EXCEPT !.alive = FALSE, !.panicked = panicked,
               !.subscribes = <<>>, !.upstream_info = <<>>,
               !.sent = [s \in MuxServices |-> {}]]

\* main returns, lines 131-146, or unwinds from the assertion: the context
\* is dropped, with it rx_command and the commands in it, the table of
\* subscriptions and the upstream connections
main_return(mx, panicked) ==
    [mx EXCEPT !.alive = FALSE, !.panicked = panicked,
               !.commands = <<>>, !.subscribes = <<>>, !.upstream_info = <<>>,
               !.sent = [s \in MuxServices |-> {}]]

\* a finish_subscribe that keeps the connection of a service nobody is
\* subscribed to any more
finish_subscribe_keep_upstream(mx, id) ==
    IF id \notin DOMAIN mx.subscribes THEN mx
    ELSE LET services == mx.subscribes[id].services
         IN  [mx EXCEPT
                !.subscribes = [i \in DOMAIN mx.subscribes \ {id} |-> mx.subscribes[i]],
                !.upstream_info =
                    [s \in DOMAIN mx.upstream_info |->
                       IF s \in services THEN mx.upstream_info[s] - 1
                       ELSE mx.upstream_info[s]]]

\* WebSocketContext::finish_subscribe, lines 283-296, on the actor's state
finish_subscribe_in(mx, id) ==
    IF id \notin DOMAIN mx.subscribes THEN mx
    ELSE LET services == mx.subscribes[id].services
             closed   == {s \in services \cap DOMAIN mx.upstream_info :
                            mx.upstream_info[s] = 1}
         IN  [mx EXCEPT
                !.subscribes = [i \in DOMAIN mx.subscribes \ {id} |-> mx.subscribes[i]],
                !.upstream_info =
                    [s \in DOMAIN mx.upstream_info \ closed |->
                       IF s \in services THEN mx.upstream_info[s] - 1
                       ELSE mx.upstream_info[s]],
                !.sent = [s \in MuxServices |-> IF s \in closed THEN {} ELSE mx.sent[s]]]

\* for the record: a command sent or an event handled in between, by which
\* the counts a caller saw when it started may have changed
disturb(callers) == [j \in DOMAIN callers |-> [callers[j] EXCEPT !.alone = FALSE]]

\* GroupedStream::insert on the server's streams (server.rs 104): a stream
\* already there under the id is replaced and dropped
replace_stream(callers, id) ==
    [j \in DOMAIN callers |->
       IF callers[j].kind = "stream" /\ callers[j].id = id
       THEN [callers[j] EXCEPT !.state = "dropped", !.rx_alive = FALSE]
       ELSE callers[j]]

Caller(kind, id, services) ==
    [kind |-> kind, id |-> id, services |-> services,
     reply |-> [s \in Range(services) |-> "none"],
     state |-> "subscribing", rx |-> <<>>, rx_alive |-> TRUE, got |-> <<>>,
     result |-> "", late |-> ~mux.alive, alone |-> mux.commands = <<>>,
     before |-> [s \in MuxServices |-> subscribe_count(mux, s)]]

\* the commands of a caller's subscribe calls, sent in the order of the
\* calls; the send fails when the actor has dropped rx_command (line 85)
send_subscribe(mx, k, id, services) ==
    IF mx.alive
    THEN mx.commands \o [i \in DOMAIN services |-> SubscribeCommand(k, id, services[i])]
    ELSE mx.commands

MuxIdle ==
    /\ UNCHANGED <<composer, builder, merger, guard, shared>>
    /\ UNCHANGED http_vars /\ UNCHANGED ws_vars /\ UNCHANGED conn_vars

\* server.rs 64-104 and execute_stream, lines 83-112: the client starts a
\* subscription under an id of its choice; the stream is stored under the
\* id and, polled, creates its channel and calls subscribe for every
\* subscribe node
execute_stream(id, services) ==
    /\ mux.stage = "actor" /\ Len(mux.callers) < MaxCallers
    /\ mux' = [mux EXCEPT
                 !.callers = Append(disturb(replace_stream(@, id)),
                                    Caller("stream", id, services)),
                 !.commands = send_subscribe(mux, Len(mux.callers) + 1, id, services)]
    /\ MuxIdle

\* WebSocketFetcher::query, lines 54-59: the next id of fetcher f, a new
\* channel, one subscribe call
query(f, service) ==
    /\ mux.stage = "actor" /\ Len(mux.callers) < MaxCallers
    /\ LET id == "__req" \o ToString(mux.fetchers[f])
       IN  mux' = [mux EXCEPT
                     !.fetchers[f] = @ + 1,
                     !.callers = Append(disturb(@), Caller("query", id, <<service>>)),
                     !.commands = send_subscribe(mux, Len(mux.callers) + 1, id, <<service>>)]
    /\ MuxIdle

\* server.rs 106-109 and WebSocketController::stop: the client stops an id
stop(id) ==
    /\ mux.stage = "actor" /\ mux.stops < MaxStops
    /\ mux' = [mux EXCEPT
                 !.stops = @ + 1,
                 !.callers = disturb(@),
                 !.commands = IF mux.alive THEN Append(@, StopCommand(0, id)) ELSE @]
    /\ MuxIdle

\* handle_command_subscribe, lines 248-280, once the service has an entry
\* in upstream_info: the count, the table of subscriptions (the assertion
\* in the arm of an id that is registered; `command.tx` is stored in the
\* other arm only), the subscribe message, the reply
register(mx, c) ==
    LET counted == [mx EXCEPT !.commands = Tail(@),
                              !.upstream_info =
                                  [s \in DOMAIN @ \cup {c.service} |->
                                     IF s = c.service THEN subscribe_count(mx, s) + 1
                                     ELSE @[s]]]
    IN  IF c.id \in DOMAIN mx.subscribes
        THEN IF c.service \in mx.subscribes[c.id].services
             THEN main_return(mx, TRUE)
             ELSE [counted EXCEPT
                     !.subscribes[c.id].services = @ \cup {c.service},
                     !.sent[c.service] = @ \cup {[id |-> c.id, caller |-> c.caller]},
                     !.callers[c.caller].reply[c.service] = "ok"]
        ELSE [counted EXCEPT
                !.subscribes = [i \in DOMAIN @ \cup {c.id} |->
                                  IF i = c.id
                                  THEN [services |-> {c.service}, tx |-> c.caller]
                                  ELSE @[i]],
                !.sent[c.service] = @ \cup {[id |-> c.id, caller |-> c.caller]},
                !.callers[c.caller].reply[c.service] = "ok"]

\* main takes a Subscribe command: handle_command_subscribe, lines 227-281;
\* `connected` is the outcome of ensure_upstream where the service has no
\* connection
handle_command_subscribe(connected) ==
    /\ mux.stage = "actor" /\ mux.alive /\ mux.commands # <<>>
    /\ Head(mux.commands).type = "subscribe"
    /\ LET c == Head(mux.commands)
       IN  IF c.service \notin DOMAIN mux.upstream_info /\ ~connected
           THEN mux' = [mux EXCEPT !.commands = Tail(@),
                                   !.callers[c.caller].reply[c.service] = "err"]
           ELSE mux' = register(mux, c)
    /\ MuxIdle

\* main takes a Stop command: handle_command_stop
handle_command_stop ==
    /\ mux.stage = "actor" /\ mux.alive /\ mux.commands # <<>>
    /\ Head(mux.commands).type = "stop"
    /\ mux' = finish_subscribe_in([mux EXCEPT !.commands = Tail(@)], Head(mux.commands).id)
    /\ MuxIdle

\* handle_event, lines 310-316: the upstream of service s sends Data or
\* Next for a subscribe message m it was sent; the payload goes to the
\* channel stored under the id, and a failed send finishes the id
handle_event_data(s, m) ==
    /\ mux.stage = "actor" /\ mux.alive /\ mux.data < MaxData
    /\ s \in DOMAIN mux.upstream_info /\ m \in mux.sent[s]
    /\ LET counted == [mux EXCEPT !.data = @ + 1]
       IN  IF m.id \notin DOMAIN mux.subscribes
           THEN mux' = counted
           ELSE LET k == mux.subscribes[m.id].tx
                IN  IF mux.callers[k].rx_alive
                    THEN mux' = [counted EXCEPT !.callers[k].rx = Append(@, m.caller)]
                    ELSE mux' = finish_subscribe_in(
                                    [counted EXCEPT !.callers = disturb(@)], m.id)
    /\ MuxIdle

\* handle_event, lines 317-319: the upstream completes what it was sent
\* with m
handle_event_complete(s, m) ==
    /\ mux.stage = "actor" /\ mux.alive
    /\ s \in DOMAIN mux.upstream_info /\ m \in mux.sent[s]
    /\ mux' = finish_subscribe_in(
                  [mux EXCEPT !.sent[s] = @ \ {m}, !.callers = disturb(@)], m.id)
    /\ MuxIdle

\* handle_event returns false, lines 305-308 and 331: text that is no
\* server message, an error of the connection, or its end; main returns
UpstreamFailures == {"invalid", "error", "complete"}

handle_event_false(s, failure) ==
    /\ mux.stage = "actor" /\ mux.alive
    /\ s \in DOMAIN mux.upstream_info
    /\ mux' = main_return(mux, FALSE)
    /\ MuxIdle

\* the caller's subscribe calls have answered
can_return(mx, k) == mx.callers[k].state = "subscribing" /\ subscribed(mx, k) # "pending"

\* execute_stream, lines 112-154: with every call acknowledged the receiver
\* is the stream; with a failure it is dropped, the id stopped and the
\* error is the one response.  WebSocketFetcher::query, line 59: `?`
subscribe_return(k, err) ==
    /\ mux.stage = "actor" /\ k \in DOMAIN mux.callers /\ can_return(mux, k)
    /\ IF subscribed(mux, k) = "ok"
       THEN /\ err = "ok"
            /\ mux' = [mux EXCEPT !.callers[k].state =
                                      IF mux.callers[k].kind = "stream"
                                      THEN "streaming" ELSE "receiving"]
       ELSE /\ err \in subscribe_errors(mux, k)
            /\ LET failed == [mux EXCEPT !.callers[k].state = "failed",
                                         !.callers[k].result = err,
                                         !.callers[k].rx_alive = FALSE]
               IN  IF mux.callers[k].kind = "stream"
                   THEN mux' = [failed EXCEPT
                                  !.callers = [j \in DOMAIN @ |->
                                                 IF j = k THEN @[j]
                                                 ELSE [@[j] EXCEPT !.alone = FALSE]],
                                  !.commands = IF mux.alive
                                               THEN Append(@, StopCommand(k, mux.callers[k].id))
                                               ELSE @]
                   ELSE mux' = failed
    /\ MuxIdle

\* the caller waits on its receiver, and a response or None is there
can_recv(mx, k) ==
    /\ mx.callers[k].state \in {"streaming", "receiving"}
    /\ mx.callers[k].rx # <<>> \/ channel_closed(mx, k)

\* execute_stream, line 137 (`while let Some(response) = stream.recv()`),
\* and WebSocketFetcher::query, lines 60-62 (one response, or
\* "Connection closed." for None)
caller_recv(k) ==
    /\ mux.stage = "actor" /\ k \in DOMAIN mux.callers /\ can_recv(mux, k)
    /\ LET caller == mux.callers[k]
       IN  IF caller.rx # <<>>
           THEN mux' = [mux EXCEPT
                          !.callers[k] =
                              IF caller.kind = "stream"
                              THEN [caller EXCEPT !.rx = Tail(@), !.got = Append(@, Head(caller.rx))]
                              ELSE [caller EXCEPT !.rx = <<>>, !.got = <<Head(caller.rx)>>,
                                                  !.state = "done", !.result = "ok",
                                                  !.rx_alive = FALSE]]
           ELSE mux' = [mux EXCEPT
                          !.callers[k] =
                              IF caller.kind = "stream"
                              THEN [caller EXCEPT !.state = "ended", !.rx_alive = FALSE]
                              ELSE [caller EXCEPT !.state = "done", !.rx_alive = FALSE,
                                                  !.result = "Connection closed."]]
    /\ MuxIdle

InitController ==
    /\ Quiet /\ OtherUnitsIdle
    /\ shared = [stage |-> "none"]
    /\ mux = NewController

NextController ==
    \/ \E id \in ClientIds, services \in StreamServices : execute_stream(id, services)
    \/ \E f \in 1..MaxFetchers, s \in MuxServices : query(f, s)
    \/ \E id \in ClientIds : stop(id)
    \/ \E connected \in BOOLEAN : handle_command_subscribe(connected)
    \/ handle_command_stop
    \/ \E s \in MuxServices : \E m \in mux.sent[s] : handle_event_data(s, m)
    \/ \E s \in MuxServices : \E m \in mux.sent[s] : handle_event_complete(s, m)
    \/ \E s \in MuxServices, failure \in UpstreamFailures : handle_event_false(s, failure)
    \/ \E k \in 1..MaxCallers, err \in {"ok", "err", "Connection closed."} : subscribe_return(k, err)
    \/ \E k \in 1..MaxCallers : caller_recv(k)

SpecController == InitController /\ [][NextController]_vars

\* the ids registered with service s among their services
registered(mx, s) == {id \in DOMAIN mx.subscribes : s \in mx.subscribes[id].services}

\* C31: after every command and event the actor has processed, the
\* subscribe-count stored for a service is the number of registered ids
\* whose services contain it, and the services with an upstream connection
\* entry are those whose count is greater than zero
C31_CountsMatchRegistrations ==
    \A s \in MuxServices :
        /\ s \in DOMAIN mux.upstream_info <=> Cardinality(registered(mux, s)) > 0
        /\ s \in DOMAIN mux.upstream_info =>
              mux.upstream_info[s] = Cardinality(registered(mux, s))

\* two ids were registered with one service; the stream of one has ended
\* with its id finished, and the connection is kept with count 1 for the
\* other
C31_Witness ==
    \E s \in DOMAIN mux.upstream_info : \E j, k \in DOMAIN mux.callers :
        /\ mux.upstream_info[s] = 1
        /\ mux.callers[j].state = "ended" /\ s \in Range(mux.callers[j].services)
        /\ mux.callers[j].id \notin DOMAIN mux.subscribes
        /\ mux.callers[k].id \in registered(mux, s)

\* C32: the assertion of handle_command_subscribe never fails: no Subscribe
\* command is processed for an id and a service that are still registered
\* together
C32_AssertionHolds == ~mux.panicked

\* every response a caller was handed answers a request of its own
C33_OwnResponses ==
    \A k \in DOMAIN mux.callers :
        /\ \A i \in DOMAIN mux.callers[k].rx : mux.callers[k].rx[i] = k
        /\ \A i \in DOMAIN mux.callers[k].got : mux.callers[k].got[i] = k

\* the actor acknowledges a subscribe call
acknowledges(k, s) ==
    /\ mux.callers[k].reply[s] = "none"
    /\ mux'.callers[k].reply[s] = "ok"

\* the step that acknowledges a call leaves the caller's channel with the
\* sender that the responses to the call are sent on
C33_AckKeepsChannel ==
    \A k \in DOMAIN mux.callers : \A s \in Range(mux.callers[k].services) :
        acknowledges(k, s) =>
            /\ mux.callers[k].id \in DOMAIN mux'.subscribes
            /\ mux'.subscribes[mux.callers[k].id].tx = k

\* C33: a response delivered on the channel of a subscribe or query call
\* was sent by the upstream in answer to that call; it is never delivered
\* to another caller that registered the same id; and a caller whose
\* subscribe is acknowledged has a channel its responses are sent on
C33_ResponsesReachTheirCaller == []C33_OwnResponses /\ [][C33_AckKeepsChannel]_vars

\* the actor processes the Stop command that caller k sent after its
\* subscribe failed, nothing else having touched the actor since k started
stop_of_failed(k) ==
    /\ mux.alive /\ mux.commands # <<>>
    /\ Head(mux.commands) = StopCommand(k, mux.callers[k].id)
    /\ mux.callers[k].alone
    /\ Len(mux.callers[k].services) > 1
    /\ mux'.alive /\ mux'.commands = Tail(mux.commands)

C34_StopUndoesAttempt ==
    \A k \in DOMAIN mux.callers :
        stop_of_failed(k) =>
            /\ mux.callers[k].id \notin DOMAIN mux'.subscribes
            /\ \A s \in MuxServices :
                  subscribe_count(mux', s) = mux.callers[k].before[s]
            /\ \A i \in DOMAIN mux.commands :
                  mux.commands[i].caller = k => mux.commands[i].type = "stop"

\* C34: when the initial subscribe of a multi-service subscription has
\* failed for one service, the Stop command is processed after the
\* Subscribe commands of the sibling services; once it is processed no
\* registration of the id remains and the subscribe-counts are what they
\* were before the attempt
C34_FailedSubscribeLeavesNothing == [][C34_StopUndoesAttempt]_vars

\* a caller that is not at its end can take its next step
can_proceed(mx, k) ==
    \/ mx.callers[k].state \in {"failed", "done", "ended", "dropped"}
    \/ can_return(mx, k)
    \/ can_recv(mx, k)

\* C39: once the actor has terminated, every subscribe call that was
\* pending and every later one answers "Connection closed.", the actor
\* holds no sender of any channel, and no caller waits: each is at its end
\* or has its answer
C39_DeadActorReleasesCallers ==
    ~mux.alive =>
        \A k \in DOMAIN mux.callers :
            /\ \A s \in Range(mux.callers[k].services) :
                  /\ subscribe(mux, k, s) # "pending"
                  /\ mux.callers[k].late => subscribe(mux, k, s) = "Connection closed."
            /\ mux.callers[k].late /\ mux.callers[k].state = "failed" =>
                  mux.callers[k].result = "Connection closed."
            /\ actor_senders(mux, k) = 0
            /\ can_proceed(mux, k)

\* an upstream ended the actor while a subscribe call was in its queue:
\* the call has failed with "Connection closed."; a stream that started
\* before the actor ended has ended
C39_Witness ==
    /\ ~mux.alive /\ ~mux.panicked
    /\ \E j, k \in DOMAIN mux.callers :
          /\ mux.callers[j].state = "ended" /\ ~mux.callers[j].late
          /\ mux.callers[k].state = "failed" /\ ~mux.callers[k].late
          /\ mux.callers[k].result = "Connection closed."


====
